---------------------------- MODULE Spec2Model ----------------------------
(***************************************************************************)
(* Time Trap Chess: the game model (Game.ts), its danger-zone timers, the  *)
(* game controller (GameController.ts), the drag-and-drop handlers of the  *)
(* board view and the bot service (BotService.ts).                         *)
(*                                                                         *)
(* The rules engine (chess.js) is an external library.  Its state is the   *)
(* pair (board, turn); the board is indexed as the library indexes it      *)
(* internally, by (row, column) with row 0 = rank 8, and the library's     *)
(* public calls take square strings ("e4"), here <<"e", "4">>.             *)
(***************************************************************************)
EXTENDS Integers, Sequences, FiniteSets, Bags, TLC

(***************************************************************************)
(* Squares, cells and pieces                                               *)
(***************************************************************************)
Files == <<"a", "b", "c", "d", "e", "f", "g", "h">>

DigitChars == <<"0", "1", "2", "3", "4", "5", "6", "7", "8", "9">>

Rows == 0..7

Cells == Rows \X Rows

Colors == {"w", "b"}

\* chess.get() of an empty square; Game.getPiece() then returns null
NoPiece == [type |-> "none", color |-> "none"]

P(color, type) == [type |-> type, color |-> color]

\* `${n}` of a one-digit number
DigitToChar(n) == DigitChars[n + 1]

\* the number NaN, an integer no digit, row or column is equal to
NaN == -1000

\* square[k] of a string: undefined past its end (k counts from 0)
CharAt(square, k) ==
    IF k + 1 \in DOMAIN square THEN square[k + 1] ELSE "undefined"

\* parseInt of one character: the digit's value, NaN for a non-digit and for
\* undefined
ParseInt(ch) ==
    IF \E k \in 1..10 : DigitChars[k] = ch
    THEN (CHOOSE k \in 1..10 : DigitChars[k] = ch) - 1
    ELSE NaN

\* 8 - rank in floating point: NaN when rank is NaN
EightMinus(rank) == IF rank = NaN THEN NaN ELSE 8 - rank

\* Array.indexOf on the files array: -1 when absent
FilesIndexOf(ch) ==
    IF \E k \in 1..8 : Files[k] = ch
    THEN (CHOOSE k \in 1..8 : Files[k] = ch) - 1
    ELSE -1

\* a plausible slip: the rank counted from row 0 upwards, i + 1
CoordsToSquareNoFlip(i, j) == <<Files[j + 1], DigitToChar(i + 1)>>

\* Game.coordsToSquare
CoordsToSquare(i, j) == <<Files[j + 1], DigitToChar(8 - i)>>

\* Game.squareToCoords: no test of the string's length or characters
SquareToCoords(square) ==
    <<EightMinus(ParseInt(CharAt(square, 1))), FilesIndexOf(CharAt(square, 0))>>

\* chess.js: the internal index of a square string
Ox88(square) == <<8 - ParseInt(square[2]), FilesIndexOf(square[1])>>

\* chess.js: the square string of an internal index
Algebraic(cell) == <<Files[cell[2] + 1], DigitToChar(8 - cell[1])>>

SwapColor(c) == IF c = "w" THEN "b" ELSE "w"

(***************************************************************************)
(* chess.js: the starting position, move generation and move application   *)
(***************************************************************************)
BackRank == <<"r", "n", "b", "q", "k", "b", "n", "r">>

\* new Chess() / chess.reset(): the standard starting position
DefaultPosition ==
    [c \in Cells |->
        CASE c[1] = 0 -> P("b", BackRank[c[2] + 1])
          [] c[1] = 1 -> P("b", "p")
          [] c[1] = 6 -> P("w", "p")
          [] c[1] = 7 -> P("w", BackRank[c[2] + 1])
          [] OTHER -> NoPiece]

Abs(x) == IF x < 0 THEN -x ELSE x

Sign(x) == IF x < 0 THEN -1 ELSE IF x > 0 THEN 1 ELSE 0

Max(x, y) == IF x > y THEN x ELSE y

\* every square strictly between two squares of one line is empty
ClearPath(b, from, to) ==
    LET di == Sign(to[1] - from[1])
        dj == Sign(to[2] - from[2])
        n  == Max(Abs(to[1] - from[1]), Abs(to[2] - from[2]))
    IN \A k \in 1..(n - 1) : b[<<from[1] + k * di, from[2] + k * dj>>] = NoPiece

\* the piece on `from` attacks `to` by its movement pattern (PIECE_OFFSETS,
\* PAWN_OFFSETS captures), blockers on the way considered
Attacks(b, from, to) ==
    LET pc == b[from]
        di == to[1] - from[1]
        dj == to[2] - from[2]
    IN /\ from # to
       /\ CASE pc.type = "n" -> {Abs(di), Abs(dj)} = {1, 2}
            [] pc.type = "k" -> Abs(di) <= 1 /\ Abs(dj) <= 1
            [] pc.type = "r" -> (di = 0 \/ dj = 0) /\ ClearPath(b, from, to)
            [] pc.type = "b" -> Abs(di) = Abs(dj) /\ ClearPath(b, from, to)
            [] pc.type = "q" -> (di = 0 \/ dj = 0 \/ Abs(di) = Abs(dj))
                                /\ ClearPath(b, from, to)
            [] pc.type = "p" -> Abs(dj) = 1
                                /\ di = (IF pc.color = "w" THEN -1 ELSE 1)
            [] OTHER -> FALSE

\* chess._attacked(color, square)
Attacked(b, color, square) ==
    \E from \in Cells : b[from].color = color /\ Attacks(b, from, square)

\* the king squares chess.js keeps in _kings, as load() finds them on a board
KingsOf(b) ==
    [c \in Colors |-> CHOOSE k \in Cells : b[k] = P(c, "k")]

\* chess._isKingAttacked(color): the recorded king square is attacked
IsKingAttacked(b, kg, color) == Attacked(b, SwapColor(color), kg[color])

\* the cells at most r rows and r columns away from a cell: the offsets of
\* a pawn, a knight (r = 2) and a king (r = 1) reach no other cell
Near(from, r) ==
    {to \in ((from[1] - r)..(from[1] + r)) \X ((from[2] - r)..(from[2] + r)) :
        to \in Cells}

\* chess._moves({legal: false}) for one piece: pushes, captures and piece
\* moves; any piece of the other color can be captured, a king included
PseudoMoves(b, from) ==
    LET pc == b[from]
        fwd == IF pc.color = "w" THEN -1 ELSE 1
        home == IF pc.color = "w" THEN 6 ELSE 1
    IN IF pc.type = "p"
       THEN {to \in Near(from, 2) :
                \/ /\ to = <<from[1] + fwd, from[2]>>
                   /\ b[to] = NoPiece
                \/ /\ from[1] = home
                   /\ to = <<from[1] + 2 * fwd, from[2]>>
                   /\ b[<<from[1] + fwd, from[2]>>] = NoPiece
                   /\ b[to] = NoPiece
                \/ /\ Attacks(b, from, to)
                   /\ b[to].color = SwapColor(pc.color)}
       ELSE {to \in (IF pc.type = "n" THEN Near(from, 2)
                    ELSE IF pc.type = "k" THEN Near(from, 1) ELSE Cells) :
                Attacks(b, from, to) /\ b[to].color # pc.color}

\* chess._makeMove on the board: the piece moves, a pawn reaching the last
\* rank becomes the promotion piece (Game.movePiece always asks for a queen)
MakeMove(b, from, to) ==
    LET pc == b[from]
        landed == IF pc.type = "p" /\ to[1] \in {0, 7}
                  THEN P(pc.color, "q") ELSE pc
    IN [b EXCEPT ![from] = NoPiece, ![to] = landed]

\* chess._makeMove on _kings: only a moving king updates its own entry; a
\* captured king's entry is left as it was
MakeMoveKings(b, kg, from, to) ==
    IF b[from].type = "k" THEN [kg EXCEPT ![b[from].color] = to] ELSE kg

\* chess._moves({square}): the legal moves of the piece on `from`; none when
\* the square is empty or holds a piece of the side not to move
LegalMovesFrom(b, t, kg, from) ==
    IF b[from].color # t THEN {}
    ELSE {to \in PseudoMoves(b, from) :
            ~IsKingAttacked(MakeMove(b, from, to), MakeMoveKings(b, kg, from, to), t)}

\* chess.moves({verbose: true}): all legal moves of the side to move
LegalMoves(b, t, kg) ==
    UNION {{<<from, to>> : to \in LegalMovesFrom(b, t, kg, from)} : from \in Cells}

\* chess._moves().length > 0: some piece of the side to move has a legal move
HasLegalMove(b, t, kg) == \E from \in Cells : LegalMovesFrom(b, t, kg, from) # {}

\* chess.isCheck()
IsCheck(b, t, kg) == IsKingAttacked(b, kg, t)

\* chess.isCheckmate()
IsCheckmate(b, t, kg) == IsCheck(b, t, kg) /\ ~HasLegalMove(b, t, kg)

\* chess.isStalemate()
IsStalemate(b, t, kg) == ~IsCheck(b, t, kg) /\ ~HasLegalMove(b, t, kg)

\* chess.isInsufficientMaterial(): two kings alone, with one bishop or one
\* knight, or with bishops that all stand on squares of one color
IsInsufficientMaterial(b) ==
    LET pieces == {c \in Cells : b[c] # NoPiece}
        bishops == {c \in pieces : b[c].type = "b"}
        n == Cardinality(pieces)
    IN \/ n = 2
       \/ n = 3 /\ \E c \in pieces : b[c].type \in {"b", "n"}
       \/ /\ n = Cardinality(bishops) + 2
          /\ \/ \A c \in bishops : (c[1] + c[2]) % 2 = 0
             \/ \A c \in bishops : (c[1] + c[2]) % 2 = 1

\* chess.isDraw(): stalemate or insufficient material.  The half-move clock
\* and the repetition count are not part of the state: no game here lasts
\* 50 moves or repeats a position three times
IsDraw(b, t, kg) == IsStalemate(b, t, kg) \/ IsInsufficientMaterial(b)

\* validateFen as run by new Chess(fen) and chess.load(fen): the checks a
\* board produced by this program can fail are the king counts
ValidFen(b) ==
    \A c \in Colors : Cardinality({k \in Cells : b[k] = P(c, "k")}) = 1

(***************************************************************************)
(* Bounds of the model                                                     *)
(***************************************************************************)
\* the clock advances in steps of TickMs, MaxTicks times
TickMs == 7500

MaxTicks == 2

\* at most MaxTimers timers are pending at the same time
MaxTimers == 2

\* at most MaxPlies moves are played from the starting position
MaxPlies == 3

\* the colors Game.setHumanColor is called with
HumanColors == {"w"}

\* the cells the danger-zone calls are made on: e1 (the white king), e2 and
\* e7 (pawns)
DangerCells == {<<7, 4>>, <<6, 4>>, <<1, 4>>}

\* the cells Game.movePiece is called with: d1, e2, e8, a7, a6
MoveCells == {<<7, 3>>, <<6, 4>>, <<0, 4>>, <<1, 0>>, <<2, 0>>}

(***************************************************************************)
(* State                                                                   *)
(***************************************************************************)
VARIABLES
    board,              \* chess.js: the pieces, by internal index
    turn,               \* chess.js: the side to move
    kings,              \* chess.js: _kings, the recorded king squares
    moveNumber,         \* chess.js: the full-move number
    dangerZones,        \* Game._dangerZones
    dangerZoneTimers,   \* Game._dangerZoneTimers: key -> timer id
    winner,             \* Game._winner
    humanColor,         \* Game._humanColor
    settings,           \* Game._settings: {} for null, else one record
    timeouts,           \* the browser's pending setTimeout tasks
    now,                \* Date.now()
    isProcessingMove,   \* GameController._isProcessingMove
    shownResult,        \* the result last shown by UIController.showGameResult
    startVisible,       \* the Start button is displayed and the Restart button is not
    selectedCell,       \* GameController._selectedCell, <<>> for null
    validMoves,         \* GameController._validMoves
    playerColor,        \* GameController._playerColor
    botService,         \* GameController._botService: index in bots, 0 for null
    bots,               \* the BotService objects created so far
    tasks,              \* the bag of suspended async calls of the controller and view
    kingCaught,         \* history: the king-caught callback ran since the last reset()
    resetCancelled,     \* history: timers were pending when reset() was last called on its own
    called,             \* the method last called on its own, with its arguments; <<>> for none
    returned            \* what that call returned: the kind of value, then the value

vars == <<board, turn, kings, moveNumber, dangerZones, dangerZoneTimers,
          winner, humanColor, settings, timeouts, now, resetCancelled,
          isProcessingMove, shownResult, startVisible, selectedCell, validMoves,
          playerColor,
          botService, bots, tasks, kingCaught,
          called, returned>>

\* the controller state the game model never writes
ctlVars == <<selectedCell, validMoves, playerColor, botService, bots, tasks>>

chessVars == <<board, turn, kings, moveNumber>>

\* the danger-zone state and its history variable
zoneVars == <<dangerZones, dangerZoneTimers, timeouts, resetCancelled>>

\* the moves played since the starting position
Plies == 2 * (moveNumber - 1) + (IF turn = "b" THEN 1 ELSE 0)

(***************************************************************************)
(* Game.ts                                                                 *)
(***************************************************************************)
DangerZoneMs == 15000

\* the key `${position.i},${position.j}`
Key(position) == <<DigitToChar(position[1]), ",", DigitToChar(position[2])>>

\* a plausible slip: the setting is not looked at
AreDangerZonesEnabledAlways == TRUE

\* Game.areDangerZonesEnabled: _settings?.dangerZonesEnabled ?? true
AreDangerZonesEnabled == \A st \in settings : st.dangerZonesEnabled

\* a plausible slip: the test the wrong way round
IsHumanPlayerInverted(color) == humanColor # color

\* a plausible slip: every king counts as the human's, as in the unused
\* handleDangerZoneExpiration
IsHumanPlayerAny(color) == TRUE

\* Game.isHumanPlayer
IsHumanPlayer(color) == humanColor = color

\* chess.get(square)
ChessGet(b, square) == b[Ox88(square)]

\* Game.getPiece / Game.getPieceTypeAt: the piece on (i, j), NoPiece for null
GetPiece(b, i, j) == ChessGet(b, CoordsToSquare(i, j))

\* Game.isSquareDangerous
IsSquareDangerous(zones, i, j) ==
    \E n \in 1..Len(zones) : zones[n].position = <<i, j>>

\* Game.isBoardValid: the position loads and has a king of each color
IsBoardValid(b) ==
    /\ ValidFen(b)
    /\ \E c \in Cells : b[c] = P("w", "k")
    /\ \E c \in Cells : b[c] = P("b", "k")

\* a plausible slip: the square is cleared on the flipped board as well
ChessRemoveMirrored(b, square) ==
    [c \in DOMAIN b |->
        IF c = Ox88(square) \/ c = <<7 - Ox88(square)[1], Ox88(square)[2]>>
        THEN NoPiece ELSE b[c]]

\* chess.remove(square)
ChessRemove(b, square) == [b EXCEPT ![Ox88(square)] = NoPiece]

\* a plausible slip: only pawns are eliminated
RemovePieceAtPawnsOnly(b, position) ==
    LET square == CoordsToSquare(position[1], position[2])
    IN IF ChessGet(b, square).type = "p" THEN ChessRemove(b, square) ELSE b

\* a plausible slip: the removal never applied
RemovePieceAtNoLoad(b, position) == b

\* Game.removePieceAt: the board after the call; a king and an empty cell are
\* left alone, and so is every cell when a position fails to load (the catch)
RemovePieceAt(b, position) ==
    LET square == CoordsToSquare(position[1], position[2])
        piece == ChessGet(b, square)
    IN IF piece = NoPiece \/ piece.type = "k" THEN b
       ELSE IF ValidFen(b) /\ IsBoardValid(ChessRemove(b, square))
            THEN ChessRemove(b, square)
            ELSE b

\* chess.load(fen) in removePieceAt finds the kings again
KingsAfterRemove(b, kg, position) ==
    IF RemovePieceAt(b, position) # b THEN KingsOf(RemovePieceAt(b, position)) ELSE kg

\* a plausible slip: the timer of a removed zone is left pending
TimeoutsKept(pending, timers, key) == pending

\* removeDangerZone: clearTimeout of the cell's timer
TimeoutsCleared(pending, timers, key) ==
    IF key \in DOMAIN timers
    THEN {t \in pending : t.id # timers[key]}
    ELSE pending

\* removeDangerZone: the zone list without the cell's record
ZonesWithout(zones, key) == SelectSeq(zones, LAMBDA z : Key(z.position) # key)

\* removeDangerZone: the timer map without the cell's entry
TimersWithout(timers, key) == [k \in DOMAIN timers \ {key} |-> timers[k]]

\* UIController.showGameResult of the controller's own UIController, whose
\* gameInProgress is never true: updateGameControls displays Start
ShowGameResult(result) ==
    /\ shownResult' = result
    /\ startVisible' = TRUE

\* the king-caught callback GameController's constructor registers
KingCaughtCallback(w) ==
    /\ ShowGameResult(IF w = "w" THEN "Brancas" ELSE "Pretas")
    /\ isProcessingMove' = TRUE
    /\ kingCaught' = TRUE
    /\ UNCHANGED <<called, returned>>

\* a plausible slip: no duplicate test
ZoneExistsNever(zones, key) == FALSE

\* addDangerZone: _dangerZones.some(z => key of z === key)
ZoneExists(zones, key) ==
    \E n \in 1..Len(zones) : Key(zones[n].position) = key

\* the handle setTimeout returns: a positive integer that identifies no
\* pending timer (the lowest one)
SetTimeoutId(pending) ==
    CHOOSE i \in 1..(Cardinality(pending) + 1) :
        /\ \A t \in pending : t.id # i
        /\ \A j \in 1..(i - 1) : \E t \in pending : t.id = j

\* Game.addDangerZone
AddDangerZone(position) ==
    /\ AreDangerZonesEnabled
    /\ ~ZoneExists(dangerZones, Key(position))
    /\ Cardinality(timeouts) < MaxTimers
    /\ dangerZones' = Append(dangerZones,
            [position |-> position, timestamp |-> now, active |-> TRUE])
    /\ timeouts' = timeouts \cup
            {[id |-> SetTimeoutId(timeouts), position |-> position,
              due |-> now + DangerZoneMs]}
    /\ dangerZoneTimers' =
            [k \in DOMAIN dangerZoneTimers \cup {Key(position)} |->
                IF k = Key(position)
                THEN SetTimeoutId(timeouts) ELSE dangerZoneTimers[k]]
    /\ UNCHANGED <<chessVars, resetCancelled, winner, humanColor, settings, now,
                   isProcessingMove, shownResult, startVisible, kingCaught, ctlVars,
                   called, returned>>

\* Game.removeDangerZone, called from outside the expiry callback
RemoveDangerZone(position) ==
    /\ timeouts' = TimeoutsCleared(timeouts, dangerZoneTimers, Key(position))
    /\ dangerZones' = ZonesWithout(dangerZones, Key(position))
    /\ dangerZoneTimers' = TimersWithout(dangerZoneTimers, Key(position))
    /\ board' = RemovePieceAt(board, position)
    /\ kings' = KingsAfterRemove(board, kings, position)
    /\ UNCHANGED <<turn, moveNumber, winner, humanColor, settings, resetCancelled,
                   now, isProcessingMove, shownResult, startVisible, kingCaught, ctlVars,
                   called, returned>>

\* the expiry callback's elimination step: the board before removeDangerZone
BoardAfterExpiry(b, position) ==
    LET currentPiece == GetPiece(b, position[1], position[2])
    IN IF currentPiece.type = "k" /\ IsHumanPlayer(currentPiece.color) THEN b
       ELSE IF currentPiece.type # "k" /\ currentPiece # NoPiece
            THEN RemovePieceAt(b, position)
            ELSE b

\* the setTimeout callback of addDangerZone, run when its 15000 ms are over
DangerZoneExpiry(t) ==
    /\ t \in timeouts
    /\ t.due <= now
    /\ LET position == t.position
           currentPiece == GetPiece(board, position[1], position[2])
           humanKing == currentPiece.type = "k" /\ IsHumanPlayer(currentPiece.color)
           b1 == BoardAfterExpiry(board, position)
       IN /\ IF humanKing
             THEN /\ winner' = (IF currentPiece.color = "w" THEN "b" ELSE "w")
                  /\ KingCaughtCallback(winner')
             ELSE UNCHANGED <<winner, shownResult, startVisible, isProcessingMove,
                               kingCaught,
                               called, returned>>
          /\ timeouts' = TimeoutsCleared(timeouts \ {t}, dangerZoneTimers, Key(position))
          /\ dangerZones' = ZonesWithout(dangerZones, Key(position))
          /\ dangerZoneTimers' = TimersWithout(dangerZoneTimers, Key(position))
          /\ board' = RemovePieceAt(b1, position)
          /\ kings' = IF board' # board THEN KingsOf(board') ELSE kings
    /\ UNCHANGED <<turn, moveNumber, humanColor, settings, resetCancelled, now,
                   ctlVars>>

\* a plausible slip: the map is cleared without clearTimeout
ClearDangerZonesNoCancel ==
    /\ timeouts' = timeouts
    /\ dangerZoneTimers' = [k \in {} |-> 0]
    /\ dangerZones' = <<>>

\* Game.clearDangerZones
ClearDangerZones ==
    /\ timeouts' = {t \in timeouts :
            \A k \in DOMAIN dangerZoneTimers : dangerZoneTimers[k] # t.id}
    /\ dangerZoneTimers' = [k \in {} |-> 0]
    /\ dangerZones' = <<>>

\* Game.reset: clearDangerZones(), chess.reset()
GameReset ==
    /\ ClearDangerZones
    /\ board' = DefaultPosition
    /\ turn' = "w"
    /\ kings' = KingsOf(DefaultPosition)
    /\ moveNumber' = 1
    /\ kingCaught' = FALSE
    /\ UNCHANGED <<called, returned>>

\* Game.reset called on its own
Reset ==
    /\ GameReset
    /\ resetCancelled' = (timeouts # {})
    /\ UNCHANGED <<winner, humanColor, settings, now,
                   isProcessingMove, shownResult, startVisible, ctlVars>>

\* Game.movePiece: chess.move({from, to, promotion: 'q'}); an illegal move
\* throws inside and false is returned with nothing changed
\* chess.move({from, to, promotion: 'q'}) finds the move among the legal ones
MoveIsLegal(from, to) ==
    Ox88(CoordsToSquare(to[1], to[2])) \in
        LegalMovesFrom(board, turn, kings, Ox88(CoordsToSquare(from[1], from[2])))

\* a plausible slip: the move is applied and the turn does not pass
ChessMoveKeepsTurn(from, to) ==
    LET f == Ox88(CoordsToSquare(from[1], from[2]))
        t == Ox88(CoordsToSquare(to[1], to[2]))
    IN /\ board' = MakeMove(board, f, t)
       /\ kings' = MakeMoveKings(board, kings, f, t)
       /\ UNCHANGED <<turn, moveNumber>>

\* chess.move applied: the piece moves and the turn passes
ChessMove(from, to) ==
    LET f == Ox88(CoordsToSquare(from[1], from[2]))
        t == Ox88(CoordsToSquare(to[1], to[2]))
    IN /\ board' = MakeMove(board, f, t)
       /\ kings' = MakeMoveKings(board, kings, f, t)
       /\ turn' = SwapColor(turn)
       /\ moveNumber' = IF turn = "b" THEN moveNumber + 1 ELSE moveNumber

MovePiece(from, to) ==
    /\ Plies < MaxPlies
    /\ MoveIsLegal(from, to)
    /\ ChessMove(from, to)
    /\ UNCHANGED <<zoneVars, winner, humanColor, settings, now,
                   isProcessingMove, shownResult, startVisible, kingCaught, ctlVars,
                   called, returned>>

\* Game.setHumanColor
SetHumanColor(color) ==
    /\ humanColor' = color
    /\ UNCHANGED <<chessVars, zoneVars, winner, settings, now,
                   isProcessingMove, shownResult, startVisible, kingCaught, ctlVars,
                   called, returned>>

\* a plausible slip: the board is looked at before the recorded winner
CheckGameResultBoardFirst(b, t, kg, w) ==
    IF IsCheckmate(b, t, kg) THEN (IF t = "w" THEN "Pretas" ELSE "Brancas")
    ELSE IF IsDraw(b, t, kg) THEN "Empate"
    ELSE IF w # "null" THEN (IF w = "w" THEN "Brancas" ELSE "Pretas")
    ELSE "false"

\* Game.checkGameResult; "false" stands for the result `false` (no result)
CheckGameResult(b, t, kg, w) ==
    IF w # "null" THEN (IF w = "w" THEN "Brancas" ELSE "Pretas")
    ELSE IF IsCheckmate(b, t, kg) THEN (IF t = "w" THEN "Pretas" ELSE "Brancas")
    ELSE IF IsDraw(b, t, kg) THEN "Empate"
    ELSE "false"

\* time passes by ms, up to max; a due timer task runs before the clock
\* goes on
Tick(ms, max) ==
    /\ now < max
    /\ \A t \in timeouts : t.due > now
    /\ now' = now + ms
    /\ UNCHANGED <<chessVars, zoneVars, winner, humanColor, settings,
                   isProcessingMove, shownResult, startVisible, kingCaught, ctlVars,
                   called, returned>>

(***************************************************************************)
(* Specification of the game model driven through its public methods       *)
(***************************************************************************)
Init ==
    /\ board = DefaultPosition
    /\ turn = "w"
    /\ kings = KingsOf(DefaultPosition)
    /\ moveNumber = 1
    /\ dangerZones = <<>>
    /\ dangerZoneTimers = [k \in {} |-> 0]
    /\ winner = "null"
    /\ humanColor = "null"
    /\ settings = {}
    /\ timeouts = {}
    /\ resetCancelled = FALSE
    /\ now = 0
    /\ isProcessingMove = FALSE
    /\ shownResult = "none"
    /\ startVisible = TRUE
    /\ selectedCell = <<>>
    /\ validMoves = {}
    /\ playerColor = "w"
    /\ botService = 0
    /\ bots = <<>>
    /\ tasks = EmptyBag
    /\ kingCaught = FALSE
    /\ called = <<>>
    /\ returned = <<"none">>

NextGame ==
    \/ \E position \in DangerCells : AddDangerZone(position)
    \/ \E position \in DangerCells : RemoveDangerZone(position)
    \/ \E t \in timeouts : DangerZoneExpiry(t)
    \/ \E from \in MoveCells, to \in MoveCells : MovePiece(from, to)
    \/ \E color \in HumanColors : SetHumanColor(color)
    \/ Reset
    \/ Tick(TickMs, MaxTicks * TickMs)

SpecGame == Init /\ [][NextGame]_vars

(***************************************************************************)
(* Bounds and inputs of the controller model                               *)
(***************************************************************************)
\* the moves applied in one run of the application
MaxCtlPlies == 2

\* the async calls suspended at the same time
MaxTasks == 2

\* the outcomes of the bot's random draw that are followed
MaxBotChoices == 1

\* the cells the human clicks: e7, e5
ClickCells == {<<1, 4>>, <<3, 4>>}

\* the cells the human drags from and drops on: d2, d3
DragCells == {<<6, 3>>, <<5, 3>>}

\* the cells marked as danger zones: e8
CtlDangerCells == {<<0, 4>>}

\* the settings read from the start form, UIController.getGameSettings
StartSettings ==
    {[mode |-> "singleplayer", botLevel |-> "dificil", playerColor |-> "b",
      dangerZonesEnabled |-> TRUE]}

(***************************************************************************)
(* BotService.ts                                                           *)
(***************************************************************************)
NoCell == <<>>

\* a suspended async call: which entry point started it (kind), the await
\* it is suspended at (pc), the BotService whose fazerMovimento it awaits
\* (bot, 0 if none) and the bot level of the start form (level)
Task(kind, pc, bot, level) == [kind |-> kind, pc |-> pc, bot |-> bot, level |-> level]

\* the suspended calls once the call tk has run on to its end
Ended(tk) == tasks (-) SetToBag({tk})

\* the suspended calls with one more
Suspended(tk) == tasks (+) SetToBag({tk})

\* the suspended calls once the call tk has run on to its next await
Resumed(tk, pc, bot) ==
    Ended(tk) (+) SetToBag({[tk EXCEPT !.pc = pc, !.bot = bot]})

\* the BotService objects still referenced: the controller's and those a
\* suspended call awaits
LiveBots(svc, tks) == ({svc} \cup {tk.bot : tk \in BagToSet(tks)}) \ {0}

\* the heap of BotService objects without the unreferenced ones
Collected(bs, svc, tks) == [k \in LiveBots(svc, tks) |-> bs[k]]

\* the reference of a new BotService object: the lowest one not in use
NewBot(tks) ==
    CHOOSE i \in 1..(BagCardinality(tks) + 1) :
        /\ i \notin LiveBots(0, tks)
        /\ \A j \in 1..(i - 1) : j \in LiveBots(0, tks)

\* a plausible slip: deveJogar tests the turn only
DeveJogarTurnOnly(bot, t) == t = bot.cor

\* BotService.deveJogar, with the turn t the game reports
DeveJogar(bot, t) == t = bot.cor /\ ~bot.isProcessing

\* BotService.getValidMoves for one cell: the moves the game reports for
\* the piece on it if it is of the given color, as <<from, to>> pairs of
\* squares
ValidMovesFrom(color, from) ==
    IF board[from].color # color THEN {}
    ELSE {<<from, to>> : to \in LegalMovesFrom(board, turn, kings, from)}

\* the position of a square in the scan of the board, row by row
Rank(square) == square[1] * 8 + square[2]

\* the first k moves of a set of moves of one piece, in scan order of their
\* destinations
FirstOf(S, k) ==
    {m \in S : Cardinality({x \in S : Rank(x[2]) < Rank(m[2])}) < k}

\* the first k moves of the pieces of a color, in scan order from the cell
\* of rank n on
RECURSIVE FirstMoves(_, _, _)
FirstMoves(color, n, k) ==
    IF n > 63 \/ k <= 0 THEN {}
    ELSE LET here == FirstOf(ValidMovesFrom(color, <<n \div 8, n % 8>>), k)
         IN here \cup FirstMoves(color, n + 1, k - Cardinality(here))

\* BotService.selectMoveByLevel: the moves it can return (none: it returns
\* null or throws, and fazerMovimento resolves null).  Every tier picks
\* among getValidMoves(), the moves of the bot's own pieces; only the
\* minimax of level dificil enumerates the moves of the side to move,
\* whichever it is.  Of the moves it can pick, the first MaxBotChoices in
\* scan order are followed.
SelectMoveByLevel(bot) ==
    LET own == FirstMoves(bot.cor, 0, MaxBotChoices)
    IN IF own # {} THEN own
       ELSE IF bot.nivel = "dificil" THEN FirstMoves(turn, 0, MaxBotChoices)
       ELSE {}

(***************************************************************************)
(* GameController.ts, UIController and the drag-and-drop handlers of       *)
(* BoardView                                                               *)
(***************************************************************************)
\* Game.getValidMoves(i, j) as cells
GetValidMoves(i, j) ==
    {SquareToCoords(Algebraic(to)) :
        to \in LegalMovesFrom(board, turn, kings, Ox88(CoordsToSquare(i, j)))}

\* GameController.clearSelection
ClearSelection ==
    /\ selectedCell' = NoCell
    /\ validMoves' = {}

\* the async call tk returns to its caller, having shown a result or not.
\* handleCellClick passes through clearSelection (unless handleMoveAttempt
\* returned after showing a result) and its finally block; handleStartGame
\* hides the Start button and handleRestartGame displays it
Finish(tk, clear, shown) ==
    /\ tasks' = Ended(tk)
    /\ IF tk.kind = "click"
       THEN /\ isProcessingMove' = FALSE
            /\ IF clear THEN ClearSelection ELSE UNCHANGED <<selectedCell, validMoves>>
       ELSE UNCHANGED <<isProcessingMove, selectedCell, validMoves>>
    /\ startVisible' = (IF tk.kind = "start" THEN FALSE
                        ELSE IF tk.kind = "reset" THEN TRUE
                        ELSE IF shown THEN TRUE ELSE startVisible)

\* GameController.botTurn up to the await of fazerMovimento, called by the
\* async call tk when the turn is t
BotTurn(tk, t) ==
    IF botService # 0 /\ DeveJogar(bots[botService], t)
    THEN /\ bots' = [bots EXCEPT ![botService].isProcessing = TRUE]
         /\ tasks' = Resumed(tk, "think", botService)
         /\ UNCHANGED <<isProcessingMove, selectedCell, validMoves, startVisible>>
    ELSE /\ Finish(tk, TRUE, FALSE)
         /\ UNCHANGED bots

\* GameController.handleCellClick
HandleCellClick(i, j) ==
    /\ ~(isProcessingMove \/ turn # playerColor)
    /\ IF selectedCell = NoCell
       THEN \* handlePieceSelection
            /\ IF GetPiece(board, i, j) # NoPiece /\ GetPiece(board, i, j).color = turn
               THEN /\ selectedCell' = <<i, j>>
                    /\ validMoves' = GetValidMoves(i, j)
               ELSE UNCHANGED <<selectedCell, validMoves>>
            /\ UNCHANGED <<chessVars, tasks, isProcessingMove>>
       ELSE \* handleMoveAttempt
            IF <<i, j>> \in validMoves /\ MoveIsLegal(selectedCell, <<i, j>>)
            THEN /\ Plies < MaxCtlPlies
                 /\ BagCardinality(tasks) < MaxTasks
                 /\ ChessMove(selectedCell, <<i, j>>)
                 /\ isProcessingMove' = TRUE
                 /\ tasks' = Suspended(Task("click", "animate", 0, "none"))
                 /\ UNCHANGED <<selectedCell, validMoves>>
            ELSE /\ ClearSelection
                 /\ UNCHANGED <<chessVars, tasks, isProcessingMove>>
    /\ UNCHANGED <<zoneVars, winner, humanColor, settings, now, shownResult,
                   startVisible, playerColor, botService, bots,
                   kingCaught,
                   called, returned>>

\* the mousedown listener of BoardView.addDragListeners on the piece of
\* cell `from` and its onMouseUp over cell `to`, up to the await of the
\* animation.  mousedown goes on if the cell holds a piece of the side to
\* move; onMouseUp reads the game again and goes on if getValidMoves(from)
\* holds `to`, which is empty unless the cell then holds a piece of the side
\* to move: the test of mousedown is implied by the one of onMouseUp, so the
\* two handlers are one step, taken when the button is released
Drag(from, to) ==
    /\ GetPiece(board, from[1], from[2]) # NoPiece
    /\ turn = GetPiece(board, from[1], from[2]).color
    /\ MoveIsLegal(from, to)
    /\ Plies < MaxCtlPlies
    /\ BagCardinality(tasks) < MaxTasks
    /\ ChessMove(from, to)
    /\ tasks' = Suspended(Task("drag", "animate", 0, "none"))
    /\ UNCHANGED <<zoneVars, winner, humanColor, settings, now,
                   isProcessingMove, shownResult, startVisible, selectedCell,
                   validMoves, playerColor, botService, bots, kingCaught,
                   called, returned>>

\* the animation of a human move is over: executeMove returns true to
\* handleMoveAttempt (click) or to onMouseUp (drag)
ExecuteMoveDone(tk) ==
    /\ tk.pc = "animate"
    /\ LET result == CheckGameResult(board, turn, kings, winner)
       IN IF tk.kind = "click" /\ result # "false"
          THEN /\ shownResult' = result
               /\ Finish(tk, FALSE, TRUE)
               /\ UNCHANGED bots
          ELSE /\ BotTurn(tk, turn)
               /\ UNCHANGED shownResult
    /\ UNCHANGED <<chessVars, zoneVars, winner, humanColor, settings, now,
                   playerColor, botService, kingCaught,
                   called, returned>>

\* the delay of fazerMovimento is over: selectMoveByLevel runs, the finally
\* block clears isProcessing and botTurn calls executeMove with the move
FazerMovimentoDone(tk) ==
    /\ tk.pc = "think"
    /\ LET moves == SelectMoveByLevel(bots[tk.bot])
           done == [bots EXCEPT ![tk.bot].isProcessing = FALSE]
       IN IF moves = {}
          THEN /\ bots' = Collected(done, botService, Ended(tk))
               /\ Finish(tk, TRUE, FALSE)
               /\ UNCHANGED chessVars
          ELSE \E m \in moves :
                  /\ Plies < MaxCtlPlies
                  /\ bots' = Collected(done, botService, Resumed(tk, "botAnimate", 0))
                  /\ ChessMove(SquareToCoords(Algebraic(m[1])),
                               SquareToCoords(Algebraic(m[2])))
                  /\ tasks' = Resumed(tk, "botAnimate", 0)
                  /\ UNCHANGED <<isProcessingMove, selectedCell, validMoves,
                                 startVisible>>
    /\ UNCHANGED <<zoneVars, winner, humanColor, settings, now, shownResult,
                   playerColor, botService, kingCaught,
                   called, returned>>

\* the animation of the bot's move is over: botTurn checks the result and
\* returns to its caller
BotExecuteMoveDone(tk) ==
    /\ tk.pc = "botAnimate"
    /\ LET result == CheckGameResult(board, turn, kings, winner)
       IN /\ shownResult' = (IF result # "false" THEN result ELSE shownResult)
          /\ Finish(tk, TRUE, result # "false")
    /\ UNCHANGED <<chessVars, zoneVars, winner, humanColor, settings, now,
                   playerColor, botService, bots, kingCaught,
                   called, returned>>

\* GameController.startGame up to the await of AudioService.loadSounds,
\* started by the Start button
StartGame(s) ==
    /\ startVisible
    /\ BagCardinality(tasks) < MaxTasks
    /\ playerColor' = s.playerColor
    /\ humanColor' = s.playerColor
    /\ GameReset
    /\ settings' = {s}
    /\ tasks' = Suspended(Task("start", "loadSounds", 0, s.botLevel))
    /\ UNCHANGED <<winner, resetCancelled, now, isProcessingMove, shownResult,
                   startVisible, selectedCell, validMoves, botService, bots>>

\* startGame after loadSounds: the selection is cleared, the bot is created,
\* updateGameControls displays Start and, if the human plays black,
\* startGame awaits delay(300); if not, it returns to handleStartGame
StartGameLoaded(tk) ==
    /\ tk.pc = "loadSounds"
    /\ ClearSelection
    /\ LET new == NewBot(tasks)
           after == IF playerColor = "b" THEN Resumed(tk, "delay", 0) ELSE Ended(tk)
       IN /\ botService' = new
          /\ tasks' = after
          /\ bots' = [k \in LiveBots(new, after) |->
                        IF k = new
                        THEN [nivel |-> tk.level,
                              cor |-> (IF playerColor = "w" THEN "b" ELSE "w"),
                              isProcessing |-> FALSE]
                        ELSE bots[k]]
    /\ startVisible' = (playerColor = "b")
    /\ UNCHANGED <<chessVars, zoneVars, winner, humanColor, settings, now,
                   isProcessingMove, shownResult, playerColor,
                   kingCaught,
                   called, returned>>

\* startGame after delay(300): botTurn
StartGameDelayDone(tk) ==
    /\ tk.pc = "delay"
    /\ BotTurn(tk, turn)
    /\ UNCHANGED <<chessVars, zoneVars, winner, humanColor, settings, now,
                   shownResult, playerColor, botService, kingCaught,
                   called, returned>>

\* GameController.resetGame up to the await of fazerMovimento, started by
\* the Restart button; handleRestartGame displays Start when it returns
ResetGame ==
    /\ ~startVisible
    /\ GameReset
    /\ ClearSelection
    /\ IF playerColor = "b" /\ botService # 0 /\ DeveJogar(bots[botService], "w")
       THEN /\ BagCardinality(tasks) < MaxTasks
            /\ bots' = [bots EXCEPT ![botService].isProcessing = TRUE]
            /\ tasks' = Suspended(Task("reset", "think", botService, "none"))
            /\ UNCHANGED startVisible
       ELSE /\ startVisible' = TRUE
            /\ UNCHANGED <<bots, tasks>>
    /\ UNCHANGED <<winner, humanColor, settings, resetCancelled, now,
                   isProcessingMove, shownResult, playerColor, botService>>

(***************************************************************************)
(* Specifications of the running application: the human's clicks, drags    *)
(* and buttons and the suspended calls (SpecPlay), and with them the       *)
(* danger-zone marking, the timers and the clock (Spec)                    *)
(***************************************************************************)
NextPlay ==
    \/ \E s \in StartSettings : StartGame(s)
    \/ \E tk \in BagToSet(tasks) : StartGameLoaded(tk)
    \/ \E tk \in BagToSet(tasks) : StartGameDelayDone(tk)
    \/ ResetGame
    \/ \E c \in ClickCells : HandleCellClick(c[1], c[2])
    \/ \E from \in DragCells, to \in DragCells : Drag(from, to)
    \/ \E tk \in BagToSet(tasks) : ExecuteMoveDone(tk)
    \/ \E tk \in BagToSet(tasks) : FazerMovimentoDone(tk)
    \/ \E tk \in BagToSet(tasks) : BotExecuteMoveDone(tk)

SpecPlay == Init /\ [][NextPlay]_vars

Next ==
    \/ NextPlay
    \/ \E position \in CtlDangerCells : AddDangerZone(position)
    \/ \E position \in CtlDangerCells : RemoveDangerZone(position)
    \/ \E t \in timeouts : DangerZoneExpiry(t)
    \/ Tick(MaxTicks * TickMs, MaxTicks * TickMs)

Spec == Init /\ [][Next]_vars

(***************************************************************************)
(* Properties of the danger-zone state machine                             *)
(***************************************************************************)
E1 == <<7, 4>>

E2 == <<6, 4>>

E7 == <<1, 4>>

E8 == <<0, 4>>

\* the zone record of a cell (the cell has one)
ZoneAt(zones, position) ==
    zones[CHOOSE n \in 1..Len(zones) : zones[n].position = position]

\* the cell has neither a zone record nor a timer entry nor a pending task
ZoneGone(zones, timers, pending, position) ==
    /\ ~IsSquareDangerous(zones, position[1], position[2])
    /\ Key(position) \notin DOMAIN timers
    /\ \A t \in pending : t.position # position

C2_HumanKingCaught ==
    [][\A t \in timeouts :
        (/\ DangerZoneExpiry(t)
         /\ board[t.position].type = "k"
         /\ board[t.position].color = humanColor)
        => /\ winner' = SwapColor(humanColor)
           /\ shownResult' = (IF winner' = "w" THEN "Brancas" ELSE "Pretas")
           /\ isProcessingMove'
           /\ board' = board
           /\ ZoneGone(dangerZones', dangerZoneTimers', timeouts', t.position)]_vars

\* the white human's king was caught on e1: black has won and the king stands
C2_Witness ==
    /\ humanColor = "w"
    /\ winner = "b"
    /\ shownResult = "Pretas"
    /\ board[E1] = P("w", "k")
    /\ ZoneGone(dangerZones, dangerZoneTimers, timeouts, E1)

\* C3 (as claimed): removeDangerZone(cell) cancels the timer, deletes the
\* record and leaves every piece on the board in place.
C3_RemoveLeavesPieces ==
    [][\A position \in DangerCells :
        RemoveDangerZone(position)
        => /\ ZoneGone(dangerZones', dangerZoneTimers', timeouts', position)
           /\ board' = board]_vars

\* C4 (as claimed): after reset() the board is the starting position, white
\* is to move, there is no danger zone and no winner, and checkGameResult()
\* reports no result.
C4_ResetClearsAll ==
    [][Reset
        => /\ board' = DefaultPosition
           /\ turn' = "w"
           /\ dangerZones' = <<>>
           /\ winner' = "null"
           /\ CheckGameResult(board', turn', kings', winner') = "false"]_vars

\* C5 (as claimed): the board always holds exactly one white king and exactly
\* one black king.
C5_OneKingEach ==
    \A c \in Colors : Cardinality({k \in Cells : board[k] = P(c, "k")}) = 1

\* C6: reset() cancels every pending danger-zone timer: after it no expiry
\* task is pending, so none created before the reset can run on the new board.
C6_ResetCancelsTimers ==
    [][Reset => timeouts' = {} /\ dangerZoneTimers' = [k \in {} |-> 0]]_vars

\* reset() was called with expiry tasks pending, less than 15000 ms after
\* they were started: no task is pending any more, no zone is recorded
C6_Witness ==
    /\ resetCancelled
    /\ now < DangerZoneMs
    /\ timeouts = {}
    /\ dangerZones = <<>>
    /\ board = DefaultPosition

\* C7: there is at most one zone record and one expiry task per cell, and the
\* task of a zone is due 15000 ms after the zone's own timestamp (a second
\* addDangerZone on the cell adds no record, no task and restarts nothing).
C7_OneZonePerCell ==
    /\ \A m, n \in 1..Len(dangerZones) :
        dangerZones[m].position = dangerZones[n].position => m = n
    /\ \A t, u \in timeouts : t.position = u.position => t = u
    /\ \A n \in 1..Len(dangerZones) :
        \E t \in timeouts :
            /\ t.position = dangerZones[n].position
            /\ t.due = dangerZones[n].timestamp + DangerZoneMs

\* two cells have a zone each, and the one of e2 is older than the clock's
\* last step
C7_Witness ==
    /\ Len(dangerZones) = 2
    /\ IsSquareDangerous(dangerZones, E2[1], E2[2])
    /\ ZoneAt(dangerZones, E2).timestamp < now


(***************************************************************************)
(* Properties of the controller, the drag handlers and the bot service     *)
(***************************************************************************)
\* C8: once the king-caught callback has fired, no move is applied to the
\* board until the game is reset or restarted: as long as the callback's
\* match goes on, the turn does not pass and the move number stays.
C8_NoMoveAfterKingCaught ==
    [][(kingCaught /\ kingCaught') => (turn' = turn /\ moveNumber' = moveNumber)]_vars

\* the human moves in process: the calls of handleCellClick and of onMouseUp
\* that applied a move and have not returned
HumanMovesInFlight(tks) ==
    BagCardinality([tk \in {x \in BagToSet(tks) : x.kind \in {"click", "drag"}} |->
                        CopiesIn(tk, tks)])

\* C9: while a human move is in process (accepted, animated, the bot's reply
\* not applied yet), no click and no drag-and-drop applies another move: no
\* further human move gets in process.
C9_InputIgnoredWhileProcessing ==
    [][HumanMovesInFlight(tasks) > 0 =>
            HumanMovesInFlight(tasks') <= HumanMovesInFlight(tasks)]_vars

\* the calls of fazerMovimento on the BotService k that selected no move yet
Thinking(tks, k) ==
    BagCardinality([tk \in {x \in BagToSet(tks) : x.pc = "think" /\ x.bot = k} |->
                        CopiesIn(tk, tks)])

BotMovesInFlight(tks) ==
    BagCardinality([tk \in {x \in BagToSet(tks) : x.pc = "botAnimate"}
                        |-> CopiesIn(tk, tks)])

\* C11 (as claimed): in a single-player game the move the bot applies after
\* an accepted human move is one move of the bot's color (the color the
\* human does not play), made when it is the bot's turn, and the turn then
\* returns to the human.
C11_BotRepliesOnce ==
    [][BotMovesInFlight(tasks') > BotMovesInFlight(tasks) =>
            (turn = SwapColor(playerColor) /\ turn' = playerColor)]_vars

\* a piece stands on a cell after the step that did not stand there before:
\* the colors of the pieces that arrived
Arrived == {board'[c].color : c \in {x \in Cells : board'[x] # NoPiece /\ board'[x] # board[x]}}

\* the step leaves the game as chess.reset() does: the starting position
\* with no move in its history
HistoryCleared == board' = DefaultPosition /\ moveNumber' = 1 /\ turn' = "w"

\* C12: a movePiece that returns true (a piece arrives on a cell) moves a
\* piece of the side to move and passes the turn to the other color, and
\* between two resets nothing else changes the turn (a zone's expiry or
\* removal takes a piece off and leaves the turn): white and black moves
\* strictly alternate.
C12_TurnAlternates ==
    [][~HistoryCleared =>
          /\ Arrived # {} => (Arrived = {turn} /\ turn' = SwapColor(turn))
          /\ turn' # turn => Arrived # {}]_vars

\* three moves were played, the e7 pawn was taken off by a danger zone in
\* between, and it is black's turn after white's second move
C12_Witness ==
    /\ Plies = 3
    /\ turn = "b"
    /\ board[E7] = NoPiece
    /\ now >= DangerZoneMs

(***************************************************************************)
(* Methods called one at a time on positions of a game in progress         *)
(***************************************************************************)
\* the cell of a square given by file and rank
Sq(file, rank) == Ox88(<<file, DigitToChar(rank)>>)

\* the starting position with the pieces of some cells taken off and pieces
\* put on others
Position(off, on) ==
    [c \in Cells |-> IF c \in DOMAIN on THEN on[c]
                     ELSE IF c \in off THEN NoPiece
                     ELSE DefaultPosition[c]]

\* a board with the given pieces only
Pieces(on) == [c \in Cells |-> IF c \in DOMAIN on THEN on[c] ELSE NoPiece]

\* 1. f3 e5 2. g4: black mates in one with Qh4
BeforeFoolsMate ==
    [board |-> Position({Sq("f", 2), Sq("g", 2), Sq("e", 7)},
                        Sq("f", 3) :> P("w", "p") @@ Sq("g", 4) :> P("w", "p") @@
                        Sq("e", 5) :> P("b", "p")),
     turn |-> "b"]

\* 1. f3 e5 2. g4 Qh4: white is checkmated
FoolsMate ==
    [board |-> Position({Sq("f", 2), Sq("g", 2), Sq("e", 7), Sq("d", 8)},
                        Sq("f", 3) :> P("w", "p") @@ Sq("g", 4) :> P("w", "p") @@
                        Sq("e", 5) :> P("b", "p") @@ Sq("h", 4) :> P("b", "q")),
     turn |-> "w"]

\* 1. e4 e5 2. Bc4 Nc6 3. Qh5 Nf6: white mates in one with Qxf7
BeforeScholarsMate ==
    [board |-> Position({Sq("e", 2), Sq("f", 1), Sq("d", 1), Sq("e", 7),
                         Sq("b", 8), Sq("g", 8)},
                        Sq("e", 4) :> P("w", "p") @@ Sq("c", 4) :> P("w", "b") @@
                        Sq("h", 5) :> P("w", "q") @@ Sq("e", 5) :> P("b", "p") @@
                        Sq("c", 6) :> P("b", "n") @@ Sq("f", 6) :> P("b", "n")),
     turn |-> "w"]

\* king and queen against king: black, to move, is stalemated
Stalemate ==
    [board |-> Pieces(Sq("h", 8) :> P("b", "k") @@ Sq("f", 7) :> P("w", "k") @@
                      Sq("g", 6) :> P("w", "q")),
     turn |-> "b"]

\* the two kings alone
BareKings ==
    [board |-> Pieces(Sq("e", 8) :> P("b", "k") @@ Sq("e", 1) :> P("w", "k")),
     turn |-> "w"]

\* the a and d pawns of both sides were eliminated by danger zones: black can
\* take the queen on d1 with the queen and the rook on a1 with the rook
OpenFiles ==
    [board |-> Position({Sq("a", 2), Sq("a", 7), Sq("d", 2), Sq("d", 7)}, <<>>),
     turn |-> "b"]

\* a middlegame of eleven pieces: the white king has walked to h4, nothing
\* can be captured and no move gives check
KingOnH4 ==
    [board |-> Pieces(Sq("h", 4) :> P("w", "k") @@ Sq("a", 8) :> P("b", "k") @@
                      Sq("b", 1) :> P("w", "n") @@
                      Sq("a", 2) :> P("w", "p") @@ Sq("b", 2) :> P("w", "p") @@
                      Sq("c", 2) :> P("w", "p") @@ Sq("d", 2) :> P("w", "p") @@
                      Sq("a", 7) :> P("b", "p") @@ Sq("b", 7) :> P("b", "p") @@
                      Sq("c", 7) :> P("b", "p") @@ Sq("d", 7) :> P("b", "p")),
     turn |-> "w"]

\* a middlegame of twelve pieces: the white pawn on g3 can take the pawn on
\* h4, and nothing else can be captured
PawnTrade ==
    [board |-> Pieces(Sq("e", 1) :> P("w", "k") @@ Sq("e", 8) :> P("b", "k") @@
                      Sq("a", 2) :> P("w", "p") @@ Sq("b", 2) :> P("w", "p") @@
                      Sq("c", 2) :> P("w", "p") @@ Sq("d", 2) :> P("w", "p") @@
                      Sq("g", 3) :> P("w", "p") @@ Sq("h", 4) :> P("b", "p") @@
                      Sq("a", 7) :> P("b", "p") @@ Sq("b", 7) :> P("b", "p") @@
                      Sq("c", 7) :> P("b", "p") @@ Sq("d", 7) :> P("b", "p")),
     turn |-> "w"]

\* the positions the methods are called on
Positions ==
    {[board |-> DefaultPosition, turn |-> "w"], BeforeFoolsMate, FoolsMate,
     BeforeScholarsMate, Stalemate, BareKings, OpenFiles, KingOnH4, PawnTrade}

\* the levels of the start form
BotLevels == {"facil", "medio", "dificil"}

\* a game in progress on one of the positions: startGame has created the
\* bot, a winner may be recorded from a king caught earlier, no call is
\* suspended
InitCalls ==
    /\ \E pos \in Positions :
          /\ board = pos.board
          /\ turn = pos.turn
          /\ kings = KingsOf(pos.board)
    /\ moveNumber = 2
    /\ dangerZones = <<>>
    /\ dangerZoneTimers = [k \in {} |-> 0]
    /\ winner \in {"null", "w", "b"}
    /\ \E cor \in Colors, nivel \in BotLevels :
          /\ bots = <<[nivel |-> nivel, cor |-> cor, isProcessing |-> FALSE]>>
          /\ playerColor = SwapColor(cor)
          /\ humanColor = SwapColor(cor)
          /\ settings = {[mode |-> "singleplayer", botLevel |-> nivel,
                          playerColor |-> SwapColor(cor), dangerZonesEnabled |-> TRUE]}
    /\ botService = 1
    /\ timeouts = {}
    /\ resetCancelled = FALSE
    /\ now = 0
    /\ isProcessingMove = FALSE
    /\ shownResult = "none"
    /\ startVisible = FALSE
    /\ selectedCell = <<>>
    /\ validMoves = {}
    /\ tasks = EmptyBag
    /\ kingCaught = FALSE
    /\ called = <<>>
    /\ returned = <<"none">>

\* every variable but those a call on its own writes
callFrame == <<chessVars, zoneVars, winner, humanColor, settings, now,
               isProcessingMove, shownResult, startVisible, selectedCell,
               validMoves, playerColor, botService, kingCaught>>

\* Game.checkGameResult() called on its own
CallCheckGameResult ==
    /\ called' = <<"checkGameResult">>
    /\ returned' = <<"result", CheckGameResult(board, turn, kings, winner)>>
    /\ UNCHANGED <<callFrame, bots, tasks>>

\* BotService.pieceValues
PieceValues ==
    ("p" :> 100) @@ ("n" :> 280) @@ ("b" :> 320) @@ ("r" :> 479) @@
    ("q" :> 929) @@ ("k" :> 60000)

\* BotService.getValidMoves: the moves of the bot's own pieces, as
\* <<from, to>> pairs of cells; none when it is not the bot's turn
BotValidMoves(cor) == UNION {ValidMovesFrom(cor, from) : from \in Cells}

\* BotService.getCapturedPiece for the target of a move: the type of the
\* piece of the other color on it, "null" if there is none
CapturedPiece(cor, m) ==
    IF board[m[2]] # NoPiece /\ board[m[2]].color # cor
    THEN board[m[2]].type ELSE "null"

\* the value of what a move captures, 0 if nothing
CapturedValue(cor, m) ==
    IF CapturedPiece(cor, m) = "null" THEN 0 ELSE PieceValues[CapturedPiece(cor, m)]

\* the target of a move is a danger zone
LandsOnDanger(m) == IsSquareDangerous(dangerZones, m[2][1], m[2][2])

\* a plausible slip: no move is ever recognised as checkmate
IsCheckmateMoveNever(m) == FALSE

\* BotService.isCheckmateMove: the move is played on a copy of the position
\* and the copy is checkmate
IsCheckmateMove(m) ==
    IsCheckmate(MakeMove(board, m[1], m[2]), SwapColor(turn),
                MakeMoveKings(board, kings, m[1], m[2]))

\* BotService.findCheckmateMove: the checkmating moves; find() returns the
\* first of them in the order of getValidMoves
FindCheckmateMove(cor) == {m \in BotValidMoves(cor) : IsCheckmateMove(m)}

\* the moves of a set that are greatest by a measure, a function on the
\* set: what [0] can be after a descending sort
Greatest(S, f) == {m \in S : \A x \in S : f[x] <= f[m]}

\* selectMoveByLevel, valuableCapture: the capture of the most valuable
\* piece among those worth a rook or more
ValuableCapture(cor) ==
    LET worth(m) == CapturedValue(cor, m)
        valuable == {m \in BotValidMoves(cor) : worth(m) >= PieceValues["r"]}
    IN Greatest(valuable, [m \in valuable |-> worth(m)])

\* BotService.countPieces
CountPieces == Cardinality({c \in Cells : board[c] # NoPiece})

\* BotService.isEndGame
IsEndGame == CountPieces <= 8

\* BotService.distanceFromEdge
DistanceFromEdge(c) ==
    LET Min(x, y) == IF x < y THEN x ELSE y
    IN Min(Min(c[1], 7 - c[1]), Min(c[2], 7 - c[2]))

\* BotService.isMidGame
IsMidGame == CountPieces <= 16 /\ CountPieces > 8

\* BotService.sortKingMoves: what [0] of the result can be.  In the
\* middlegame the moves are sorted by the distance of the target from the
\* edge, the smallest first; otherwise they keep the order of getValidMoves
SortKingMoves(moves) ==
    IF IsMidGame
    THEN Greatest(moves, [m \in moves |-> 0 - DistanceFromEdge(m[2])])
    ELSE moves

\* BotService.getMoveSafety of a move of the bot: its target is defended by
\* the piece that can move there
MoveSafety(m) ==
    (IF LandsOnDanger(m) THEN 0 ELSE 10) + 5 +
    (IF IsEndGame THEN DistanceFromEdge(m[2]) ELSE 0)

\* BotService.getKingDefenseMove: the moves it can return, none for null.
\* findBlockOrCaptureMove returns null: findAttackers asks the game for the
\* moves of the other side's pieces, which has none on the bot's turn, and
\* off its turn the bot has no move to capture or block with
KingDefenseMove(cor) ==
    LET kingPos == {c \in Cells : board[c] = P(cor, "k")}
        kingMoves == {m \in BotValidMoves(cor) : m[1] \in kingPos}
    IN IF kingPos = {} THEN {}
       ELSE IF \E c \in kingPos : IsSquareDangerous(dangerZones, c[1], c[2])
       THEN SortKingMoves({m \in kingMoves : ~LandsOnDanger(m)})
       ELSE IF IsEndGame THEN Greatest(kingMoves, [m \in kingMoves |-> MoveSafety(m)])
       ELSE {}

\* a plausible slip: no square counts as defended
IsSquareDefendedNever(i, j, color) == FALSE

\* Game.isSquareDefended: some piece of the color has (i, j) among the
\* moves the game reports for it
IsSquareDefended(i, j, color) ==
    \E x \in 0..7, y \in 0..7 :
        /\ GetPiece(board, x, y) # NoPiece
        /\ GetPiece(board, x, y).color = color
        /\ <<i, j>> \in GetValidMoves(x, y)

\* BotService.findSafeCapture: the captures sorted by value, 500 more for a
\* queen; the first one in this order that takes a queen, or a piece worth
\* one and a half times the capturing piece, or lands on no danger zone or
\* on a defended square
FindSafeCapture(cor) ==
    LET score(m) == CapturedValue(cor, m) +
                    (IF CapturedValue(cor, m) >= PieceValues["q"] THEN 500 ELSE 0)
        captures == {m \in BotValidMoves(cor) : CapturedPiece(cor, m) # "null"}
        accepted(m) == \/ CapturedPiece(cor, m) = "q"
                       \/ 2 * CapturedValue(cor, m) >= 3 * PieceValues[board[m[1]].type]
                       \/ ~LandsOnDanger(m)
                       \/ IsSquareDefended(m[2][1], m[2][2], cor)
    IN {m \in captures :
           accepted(m) /\ \A x \in captures : score(x) > score(m) => ~accepted(x)}

\* BotService.findSafeMoveForPiece: the moves of the piece on a cell to a
\* cell that is no danger zone, the safest first.  findDefenderMoves returns
\* null: no piece of the bot can move onto a piece of the bot
SafeMoveForPiece(cor, pos) ==
    LET safe == {m \in BotValidMoves(cor) : m[1] = pos /\ ~LandsOnDanger(m)}
    IN Greatest(safe, [m \in safe |-> MoveSafety(m)])

\* BotService.findThreatenedPieces: the cells of the bot's pieces that are
\* danger zones
ThreatenedPieces(cor) ==
    {c \in Cells : board[c] # NoPiece /\ board[c].color = cor
                   /\ IsSquareDangerous(dangerZones, c[1], c[2])}

\* BotService.findPieceRescueMove: a threatened queen first; then the
\* threatened pieces worth 150 or more that no capture outweighs by half,
\* the most valuable first, the first of them that has a safe move
PieceRescueMove(cor) ==
    LET value(c) == PieceValues[board[c].type]
        queens == {c \in ThreatenedPieces(cor) : board[c].type = "q"}
        worth == {c \in ThreatenedPieces(cor) :
                     /\ 2 * value(c) >= 3 * PieceValues["p"]
                     /\ ~\E m \in BotValidMoves(cor) :
                            /\ CapturedPiece(cor, m) # "null"
                            /\ 2 * CapturedValue(cor, m) > 3 * value(c)
                     /\ SafeMoveForPiece(cor, c) # {}}
    IN UNION {SafeMoveForPiece(cor, c) : c \in queens} \cup
       IF queens # {} /\ \A c \in queens : SafeMoveForPiece(cor, c) # {} THEN {}
       ELSE UNION {SafeMoveForPiece(cor, c) : c \in Greatest(worth, [x \in worth |-> value(x)])}

\* BotService.moveGivesCheck: the move's notation holds a '+', which marks
\* a check that is not mate
MoveGivesCheck(m) ==
    LET b2 == MakeMove(board, m[1], m[2])
        kg2 == MakeMoveKings(board, kings, m[1], m[2])
    IN IsCheck(b2, SwapColor(turn), kg2) /\ ~IsCheckmate(b2, SwapColor(turn), kg2)

\* what a selection hands back: a move, or no move in one of three ways
MoveOf(m) == <<"move", m>>

\* BotService.fazerMovimentoFacil: a random capture or check, else a random
\* move; with no move at all the array access yields undefined
FazerMovimentoFacil(cor) ==
    LET moves == BotValidMoves(cor)
        goodMoves == {m \in moves : CapturedPiece(cor, m) # "null" \/ MoveGivesCheck(m)}
    IN IF goodMoves # {} THEN {MoveOf(m) : m \in goodMoves}
       ELSE IF moves # {} THEN {MoveOf(m) : m \in moves}
       ELSE {<<"undefined">>}

\* BotService.avaliarMovimentoMedio; the target of a move of the bot is
\* defended by the piece that can move there
AvaliarMovimentoMedio(cor, m) ==
    LET piece == PieceValues[board[m[1]].type]
    IN 10 * CapturedValue(cor, m)
       - (IF LandsOnDanger(m) THEN 5 * piece ELSE 0)
       + 2 * piece
       + (IF m[2] \in {Sq("d", 4), Sq("e", 4), Sq("d", 5), Sq("e", 5)} THEN 3 ELSE 0)
       + (IF CountPieces > 20 /\ m[2][1] \in {2, 5} /\ m[2][2] \in 2..5 THEN 2 ELSE 0)
       + (IF MoveGivesCheck(m) THEN 5 ELSE 0)

\* BotService.fazerMovimentoMedio: one of the three best moves at random;
\* with no move at all, reading .move of undefined throws
FazerMovimentoMedio(cor) ==
    LET moves == BotValidMoves(cor)
        score(m) == AvaliarMovimentoMedio(cor, m)
    IN IF moves = {} THEN {<<"throws">>}
       ELSE {MoveOf(m) : m \in {x \in moves :
                Cardinality({y \in moves : score(y) > score(x)}) < 3}}

\* BotService.fazerMovimentoDificil: minimax searches the moves of the side
\* to move of the game's own chess instance and returns one of them (which
\* one depends on the evaluation and on a shuffle: any of them here); with
\* none it falls back to fazerMovimentoMedio
FazerMovimentoDificil(cor) ==
    IF LegalMoves(board, turn, kings) # {}
    THEN {MoveOf(m) : m \in LegalMoves(board, turn, kings)}
    ELSE FazerMovimentoMedio(cor)

\* BotService.selectMoveByLevel, tier by tier: what it can return or throw
SelectMove(bot) ==
    LET cor == bot.cor
        valuable == ValuableCapture(cor)
    IN IF FindCheckmateMove(cor) # {}
       THEN {MoveOf(m) : m \in FindCheckmateMove(cor)}
       ELSE {MoveOf(m) : m \in {x \in valuable : ~LandsOnDanger(x)}} \cup
            IF valuable # {} /\ \A x \in valuable : ~LandsOnDanger(x) THEN {}
            ELSE IF KingDefenseMove(cor) # {}
            THEN {MoveOf(m) : m \in KingDefenseMove(cor)}
            ELSE IF FindSafeCapture(cor) # {}
            THEN {MoveOf(m) : m \in FindSafeCapture(cor)}
            ELSE IF PieceRescueMove(cor) # {}
            THEN {MoveOf(m) : m \in PieceRescueMove(cor)}
            ELSE IF bot.nivel = "facil" THEN FazerMovimentoFacil(cor)
            ELSE IF bot.nivel = "medio" THEN FazerMovimentoMedio(cor)
            ELSE FazerMovimentoDificil(cor)

\* BotService.fazerMovimento, try / catch / finally: what the promise
\* resolves with for an outcome of selectMoveByLevel; a throw is caught and
\* null is returned
Resolved(outcome) ==
    IF outcome = <<"throws">> THEN <<"null">> ELSE outcome

\* BotService.fazerMovimento() called on its own, up to the await of its
\* delay; it returns null at once when deveJogar() is false
FazerMovimento ==
    /\ BagCardinality(tasks) < MaxTasks
    /\ called' = <<"fazerMovimento">>
    /\ IF DeveJogar(bots[botService], turn)
       THEN /\ bots' = [bots EXCEPT ![botService].isProcessing = TRUE]
            /\ tasks' = Suspended(Task("call", "think", botService, "none"))
            /\ returned' = <<"pending">>
       ELSE /\ returned' = <<"null">>
            /\ UNCHANGED <<bots, tasks>>
    /\ UNCHANGED callFrame

\* the delay of a fazerMovimento called on its own is over: the selection
\* runs, the finally block clears isProcessing and the promise is settled
FazerMovimentoResolved(tk) ==
    /\ tk.kind = "call"
    /\ tk.pc = "think"
    /\ \E outcome \in SelectMove(bots[tk.bot]) :
          returned' = Resolved(outcome)
    /\ called' = <<"fazerMovimento", "settled">>
    /\ bots' = [bots EXCEPT ![tk.bot].isProcessing = FALSE]
    /\ tasks' = Ended(tk)
    /\ UNCHANGED callFrame

\* the cells marked as danger zones before a call or during its delay: b1,
\* d1, h4
CallDangerCells == {<<7, 1>>, <<7, 3>>, <<4, 7>>}

NextCalls ==
    \/ \E position \in CallDangerCells : AddDangerZone(position)
    \/ CallCheckGameResult
    \/ FazerMovimento
    \/ \E tk \in BagToSet(tasks) : FazerMovimentoResolved(tk)

SpecCalls == InitCalls /\ [][NextCalls]_vars

(***************************************************************************)
(* Properties of the methods called on their own                           *)
(***************************************************************************)
\* C13: checkGameResult() returns the recorded danger-zone winner if there is
\* one, whatever the board; if there is none and the side to move is
\* checkmated, the other color; if neither and the position is a draw, draw;
\* otherwise no result.
C13_ResultPrecedence ==
    (called = <<"checkGameResult">>) =>
        /\ returned[1] = "result"
        /\ winner = "w" => returned[2] = "Brancas"
        /\ winner = "b" => returned[2] = "Pretas"
        /\ winner = "null" =>
              /\ IsCheckmate(board, turn, kings) =>
                    returned[2] = (IF turn = "w" THEN "Pretas" ELSE "Brancas")
              /\ (~IsCheckmate(board, turn, kings) /\ IsDraw(board, turn, kings)) =>
                    returned[2] = "Empate"
              /\ (~IsCheckmate(board, turn, kings) /\ ~IsDraw(board, turn, kings)) =>
                    returned[2] = "false"

\* white is recorded as the danger-zone winner on a board where white is
\* checkmated, and the call returned white
C13_Witness ==
    /\ called = <<"checkGameResult">>
    /\ winner = "w"
    /\ turn = "w"
    /\ IsCheckmate(board, turn, kings)
    /\ returned = <<"result", "Brancas">>

\* the position after a move is checkmate
Mates(m) ==
    IsCheckmate(MakeMove(board, m[1], m[2]), SwapColor(turn),
                MakeMoveKings(board, kings, m[1], m[2]))

\* the legal moves of the bot's pieces that checkmate
MatesInOne(bot) ==
    {m \in LegalMoves(board, turn, kings) : board[m[1]].color = bot.cor /\ Mates(m)}

SafeValuableCaptures(bot) ==
    {m \in LegalMoves(board, turn, kings) :
        /\ board[m[1]].color = bot.cor
        /\ board[m[2]] # NoPiece
        /\ board[m[2]].color # bot.cor
        /\ PieceValues[board[m[2]].type] >= 479
        /\ ~IsSquareDangerous(dangerZones, m[2][1], m[2][2])}

\* C15 (as claimed): when the bot has no mate in one and has a legal capture
\* of a piece worth a rook or more on a cell that is no danger zone, the move
\* it selects is such a capture, also when a more valuable capture exists on
\* a danger zone.
C15_SafeValuableCapture ==
    [][(/\ Thinking(tasks', botService) < Thinking(tasks, botService)
        /\ MatesInOne(bots[botService]) = {}
        /\ SafeValuableCaptures(bots[botService]) # {}) =>
            (/\ returned'[1] = "move"
             /\ returned'[2] \in SafeValuableCaptures(bots[botService]))]_vars

\* the legal moves of the bot's king to a cell that is no danger zone
SafeKingMoves(bot) ==
    {m \in LegalMoves(board, turn, kings) :
        /\ board[m[1]] = P(bot.cor, "k")
        /\ ~IsSquareDangerous(dangerZones, m[2][1], m[2][2])}

\* the bot's king stands on a danger zone
BotKingOnDanger(bot) ==
    \E c \in Cells : board[c] = P(bot.cor, "k") /\ IsSquareDangerous(dangerZones, c[1], c[2])

\* C23 (as claimed): when the bot's king stands on a danger zone, the bot has
\* no mate in one and no capture of a piece worth a rook or more, and the king
\* has a legal move to a cell that is no danger zone, the move selected is
\* such a king move; in the middlegame (more than 8 and at most 16 pieces) it
\* is one whose target is farthest from the edge of the board.
C23_KingEscapesFarthest ==
    [][(/\ Thinking(tasks', botService) < Thinking(tasks, botService)
        /\ MatesInOne(bots[botService]) = {}
        /\ ValuableCapture(bots[botService].cor) = {}
        /\ BotKingOnDanger(bots[botService])
        /\ SafeKingMoves(bots[botService]) # {}) =>
            (/\ returned'[1] = "move"
             /\ returned'[2] \in SafeKingMoves(bots[botService])
             /\ IsMidGame =>
                   \A x \in SafeKingMoves(bots[botService]) :
                       DistanceFromEdge(x[2]) <= DistanceFromEdge(returned'[2][2]))]_vars

\* what a call of fazerMovimento suspended in its delay can resolve with,
\* as the game stands
Resolutions(tk) == {Resolved(outcome) : outcome \in SelectMove(bots[tk.bot])}

\* C25 (as claimed): fazerMovimento selects its move first and the delay
\* elapses afterwards, so that the move returned is the one chosen for the
\* position at the time of the call: while a call is suspended in its delay,
\* what it will resolve with does not change with the game.
C25_SelectedBeforeDelay ==
    [][\A tk \in BagToSet(tasks) \cap BagToSet(tasks') :
          (tk.kind = "call" /\ tk.pc = "think") => Resolutions(tk)' = Resolutions(tk)]_vars

\* the legal captures of the bot
LegalCaptures(bot) ==
    {m \in LegalMoves(board, turn, kings) :
        /\ board[m[1]].color = bot.cor
        /\ board[m[2]] # NoPiece
        /\ board[m[2]].color # bot.cor}

\* the value of the piece a move takes, 500 more for a queen: the order of
\* findSafeCapture
CaptureRank(m) ==
    PieceValues[board[m[2]].type] + (IF board[m[2]].type = "q" THEN 500 ELSE 0)

\* C29: on the bot's turn isSquareDefended(target, botColor) is true for the
\* target of every legal move of the bot, so that the bot, when it has a
\* legal capture, returns a mating move, a king move of the king defense or a
\* capture, never a move of the rescue tier or of its level; when it has no
\* mate and the king defense has no move, the move is a capture of the
\* highest rank, also on a danger zone.
C29_CaptureBeforeRescue ==
    [][(/\ Thinking(tasks', botService) < Thinking(tasks, botService)
        /\ LegalCaptures(bots[botService]) # {}) =>
            LET bot == bots[botService]
                m == returned'[2]
            IN /\ \A x \in LegalMoves(board, turn, kings) :
                     board[x[1]].color = bot.cor => IsSquareDefended(x[2][1], x[2][2], bot.cor)
               /\ returned'[1] = "move"
               /\ \/ m \in MatesInOne(bot)
                  \/ m \in LegalCaptures(bot)
                  \/ m \in KingDefenseMove(bot.cor)
               /\ (MatesInOne(bot) = {} /\ KingDefenseMove(bot.cor) = {}) =>
                     /\ m \in LegalCaptures(bot)
                     /\ \A x \in LegalCaptures(bot) : CaptureRank(x) <= CaptureRank(m)]_vars

\* the white bot took the pawn on h4 with the pawn from g3 although h4 is a
\* danger zone
C29_Witness ==
    /\ called = <<"fazerMovimento", "settled">>
    /\ board = PawnTrade.board
    /\ IsSquareDangerous(dangerZones, 4, 7)
    /\ returned = <<"move", <<Sq("g", 3), Sq("h", 4)>>>>

(***************************************************************************)
(* Specification of danger zones on the kings' cells in a started game     *)
(***************************************************************************)
\* the cells marked as danger zones: e1 and e8, the kings' cells
KingCells == {E1, E8}

\* the game model after startGame has called setHumanColor and reset
InitKings ==
    /\ board = DefaultPosition
    /\ turn = "w"
    /\ kings = KingsOf(DefaultPosition)
    /\ moveNumber = 1
    /\ dangerZones = <<>>
    /\ dangerZoneTimers = [k \in {} |-> 0]
    /\ winner = "null"
    /\ humanColor \in Colors
    /\ settings = {}
    /\ timeouts = {}
    /\ resetCancelled = FALSE
    /\ now = 0
    /\ isProcessingMove = FALSE
    /\ shownResult = "none"
    /\ startVisible = TRUE
    /\ selectedCell = <<>>
    /\ validMoves = {}
    /\ playerColor = "w"
    /\ botService = 0
    /\ bots = <<>>
    /\ tasks = EmptyBag
    /\ kingCaught = FALSE
    /\ called = <<>>
    /\ returned = <<"none">>

NextKings ==
    \/ \E position \in KingCells : AddDangerZone(position)
    \/ \E t \in timeouts : DangerZoneExpiry(t)
    \/ Tick(TickMs, MaxTicks * TickMs)

SpecKings == InitKings /\ [][NextKings]_vars

\* C16: when the expiry task of a zone runs with the king of the color the
\* human does not play on the cell, no winner is recorded, the king-caught
\* callback does not run (no result is shown, the input guard is left as it
\* is), the board stays as it is and the zone is deleted.
C16_BotKingImmune ==
    [][\A t \in timeouts :
        (/\ DangerZoneExpiry(t)
         /\ board[t.position].type = "k"
         /\ board[t.position].color # humanColor)
        => /\ winner' = winner
           /\ kingCaught' = kingCaught
           /\ shownResult' = shownResult
           /\ isProcessingMove' = isProcessingMove
           /\ board' = board
           /\ ZoneGone(dangerZones', dangerZoneTimers', timeouts', t.position)]_vars

\* the human plays white and the zone made on e8 at the start has expired
\* (the later zone on e1 got the second timer while it was pending): the
\* black king stands on e8 and no winner is recorded
C16_Witness ==
    /\ humanColor = "w"
    /\ now >= DangerZoneMs
    /\ ZoneGone(dangerZones, dangerZoneTimers, timeouts, E8)
    /\ Key(E1) \in DOMAIN dangerZoneTimers
    /\ dangerZoneTimers[Key(E1)] = 2
    /\ board[E8] = P("b", "k")
    /\ winner = "null"
    /\ ~kingCaught

\* C17: a settled fazerMovimento() has resolved, never rejected: with a move
\* or with null, with null when the bot has no legal move, and isProcessing
\* is false afterwards, so that the next call on the bot's turn is not
\* refused.
C17_ResolvesNullNoMove ==
    called = <<"fazerMovimento", "settled">> =>
        /\ returned[1] \in {"move", "null"}
        /\ BotValidMoves(bots[botService].cor) = {} => returned = <<"null">>
        /\ ~bots[botService].isProcessing
        /\ DeveJogar(bots[botService], turn)

(***************************************************************************)
(* Specification of the square conversions called on their own             *)
(***************************************************************************)
\* the longest string given to squareToCoords
MaxSquareLen == 3

\* the characters of the strings: files a and h, a letter after h, a digit
\* below the ranks, one of them and one above
SquareChars == {"a", "h", "i", "0", "8", "9"}

\* the strings given to squareToCoords, as sequences of characters
SquareStrings == UNION {[1..n -> SquareChars] : n \in 0..MaxSquareLen}

\* a square of the board: a file a..h followed by a rank 1..8
WellFormed(square) ==
    /\ Len(square) = 2
    /\ \E k \in 1..8 : Files[k] = square[1]
    /\ \E k \in 2..9 : DigitChars[k] = square[2]

\* Game.squareToCoords(square) called on its own
CallSquareToCoords(square) ==
    /\ called' = <<"squareToCoords", square>>
    /\ returned' = <<"result", SquareToCoords(square)>>
    /\ UNCHANGED <<callFrame, bots, tasks>>

\* Game.coordsToSquare(i, j) called on its own
CallCoordsToSquare(i, j) ==
    /\ called' = <<"coordsToSquare", <<i, j>>>>
    /\ returned' = <<"result", CoordsToSquare(i, j)>>
    /\ UNCHANGED <<callFrame, bots, tasks>>

\* Game.squareToCoords(Game.coordsToSquare(i, j))
CoordsToSquareAndBack(i, j) ==
    /\ called' = <<"squareToCoords(coordsToSquare)", <<i, j>>>>
    /\ returned' = <<"result", SquareToCoords(CoordsToSquare(i, j))>>
    /\ UNCHANGED <<callFrame, bots, tasks>>

NextSquares ==
    \/ \E square \in SquareStrings : CallSquareToCoords(square)
    \/ \E cell \in Cells : CallCoordsToSquare(cell[1], cell[2])
    \/ \E cell \in Cells : CoordsToSquareAndBack(cell[1], cell[2])

SpecSquares == Init /\ [][NextSquares]_vars

\* C18: squareToCoords returns no cell for a malformed square string (a
\* length other than 2, a file outside a..h, a rank outside 1..8), and the
\* cell it returns for any string has its row and column in 0..7.
C18_MalformedSquareFails ==
    (Len(called) = 2 /\ called[1] = "squareToCoords") =>
        /\ ~WellFormed(called[2]) => returned[1] # "result"
        /\ returned[1] = "result" => returned[2] \in Cells

\* C19: squareToCoords(coordsToSquare(i, j)) is (i, j) for each of the 64
\* cells, and coordsToSquare is injective: row i gives rank 8 - i, column j
\* gives the file j places after 'a', and no other cell gives the same
\* string.
C19_RoundTrip ==
    /\ (Len(called) = 2 /\ called[1] = "squareToCoords(coordsToSquare)") =>
          returned = <<"result", called[2]>>
    /\ (Len(called) = 2 /\ called[1] = "coordsToSquare") =>
          /\ ParseInt(returned[2][2]) = 8 - called[2][1]
          /\ returned[2][1] = Files[called[2][2] + 1]
          /\ \A cell \in Cells :
                CoordsToSquare(cell[1], cell[2]) = returned[2] => cell = called[2]

\* h1, row 7 and column 7, has been converted to a string and back
C19_Witness ==
    /\ called = <<"squareToCoords(coordsToSquare)", <<7, 7>>>>
    /\ returned = <<"result", <<7, 7>>>>

(***************************************************************************)
(* Specification of zones made at the start of a game whose pieces then    *)
(* move                                                                    *)
(***************************************************************************)
G1 == <<7, 6>>

H1 == <<7, 7>>

F3 == <<5, 5>>

\* the cells marked as danger zones before the first move: g1 (a knight) and
\* f3 (empty)
OccupantDangerCells == {G1, F3}

\* the cells Game.movePiece is called with: g1, f3, h1, a7, a6
OccupantMoveCells == {G1, F3, H1, <<1, 0>>, <<2, 0>>}

NextOccupant ==
    \/ \E position \in OccupantDangerCells : Plies = 0 /\ AddDangerZone(position)
    \/ \E t \in timeouts : DangerZoneExpiry(t)
    \/ \E from \in OccupantMoveCells, to \in OccupantMoveCells : MovePiece(from, to)
    \/ Tick(TickMs, MaxTicks * TickMs)

SpecOccupant == Init /\ [][NextOccupant]_vars

C21_BotReturnsOwnMove ==
    [][\A tk \in BagToSet(tasks) :
        (FazerMovimentoDone(tk) /\ board' # board)
        => /\ Arrived = {bots[tk.bot].cor}
           /\ turn = bots[tk.bot].cor
           /\ bots[tk.bot].cor # playerColor]_vars

(***************************************************************************)
(* BotService.ts: the search of level dificil, on the rules engine the     *)
(* game shares with it                                                     *)
(***************************************************************************)
\* BotService.createPSTTables: pst_w, the piece-square tables by piece, row
\* and column
CreatePSTTables ==
    ("p" :>
        <<<<100, 100, 100, 100, 105, 100, 100, 100>>,
          <<78, 83, 86, 73, 102, 82, 85, 90>>,
          <<7, 29, 21, 44, 40, 31, 44, 7>>,
          <<-17, 16, -2, 15, 14, 0, 15, -13>>,
          <<-26, 3, 10, 9, 6, 1, 0, -23>>,
          <<-22, 9, 5, -11, -10, -2, 3, -19>>,
          <<-31, 8, -7, -37, -36, -14, 3, -31>>,
          <<0, 0, 0, 0, 0, 0, 0, 0>>>>) @@
    ("n" :>
        <<<<-66, -53, -75, -75, -10, -55, -58, -70>>,
          <<-3, -6, 100, -36, 4, 62, -4, -14>>,
          <<10, 67, 1, 74, 73, 27, 62, -2>>,
          <<24, 24, 45, 37, 33, 41, 25, 17>>,
          <<-1, 5, 31, 21, 22, 35, 2, 0>>,
          <<-18, 10, 13, 22, 18, 15, 11, -14>>,
          <<-23, -15, 2, 0, 2, 0, -23, -20>>,
          <<-74, -23, -26, -24, -19, -35, -22, -69>>>>) @@
    ("b" :>
        <<<<-59, -78, -82, -76, -23, -107, -37, -50>>,
          <<-11, 20, 35, -42, -39, 31, 2, -22>>,
          <<-9, 39, -32, 41, 52, -10, 28, -14>>,
          <<25, 17, 20, 34, 26, 25, 15, 10>>,
          <<13, 10, 17, 23, 17, 16, 0, 7>>,
          <<14, 25, 24, 15, 8, 25, 20, 15>>,
          <<19, 20, 11, 6, 7, 6, 20, 16>>,
          <<-7, 2, -15, -12, -14, -15, -10, -10>>>>) @@
    ("r" :>
        <<<<35, 29, 33, 4, 37, 33, 56, 50>>,
          <<55, 29, 56, 67, 55, 62, 34, 60>>,
          <<19, 35, 28, 33, 45, 27, 25, 15>>,
          <<0, 5, 16, 13, 18, -4, -9, -6>>,
          <<-28, -35, -16, -21, -13, -29, -46, -30>>,
          <<-42, -28, -42, -25, -25, -35, -26, -46>>,
          <<-53, -38, -31, -26, -29, -43, -44, -53>>,
          <<-30, -24, -18, 5, -2, -18, -31, -32>>>>) @@
    ("q" :>
        <<<<6, 1, -8, -104, 69, 24, 88, 26>>,
          <<14, 32, 60, -10, 20, 76, 57, 24>>,
          <<-2, 43, 32, 60, 72, 63, 43, 2>>,
          <<1, -16, 22, 17, 25, 20, -13, -6>>,
          <<-14, -15, -2, -5, -1, -10, -20, -22>>,
          <<-30, -6, -13, -11, -16, -11, -16, -27>>,
          <<-36, -18, 0, -19, -15, -15, -21, -38>>,
          <<-39, -30, -31, -13, -31, -36, -34, -42>>>>) @@
    ("k" :>
        <<<<4, 54, 47, -99, -99, 60, 83, -62>>,
          <<-32, 10, 55, 56, 56, 55, 10, 3>>,
          <<-62, 12, -57, 44, -67, 28, 37, -31>>,
          <<-55, 50, 11, -4, -19, 13, 0, -49>>,
          <<-55, -43, -52, -28, -51, -47, -8, -50>>,
          <<-47, -42, -43, -79, -64, -32, -29, -32>>,
          <<-4, 3, -14, -50, -57, -18, 13, 4>>,
          <<17, 30, -3, -14, 6, -1, 40, 18>>>>) @@
    ("k_e" :>
        <<<<-50, -40, -30, -20, -20, -30, -40, -50>>,
          <<-30, -20, -10, 0, 0, -10, -20, -30>>,
          <<-30, -10, 20, 30, 30, 20, -10, -30>>,
          <<-30, -10, 30, 40, 40, 30, -10, -30>>,
          <<-30, -10, 30, 40, 40, 30, -10, -30>>,
          <<-30, -10, 20, 30, 30, 20, -10, -30>>,
          <<-30, -30, 0, 0, 0, 0, -30, -30>>,
          <<-50, -30, -30, -30, -30, -30, -30, -50>>>>)

\* BotService.createOpponentPSTTables: pst_b, the rows of pst_w reversed
CreateOpponentPSTTables ==
    [piece \in DOMAIN CreatePSTTables |->
        [r \in 1..8 |-> CreatePSTTables[piece][9 - r]]]

\* BotService.getPSTValue of a bot of color cor: pstSelf[cor] or
\* pstOpponent[cor], at the row and column of pos
GetPSTValue(cor, piece, pos, isSelf) ==
    LET table == IF isSelf = (cor = "w") THEN CreatePSTTables
                 ELSE CreateOpponentPSTTables
    IN table[piece][pos[1] + 1][pos[2] + 1]

\* BotService.centerSquares: d4, e4, d5, e5
CenterSquares == {Sq("d", 4), Sq("e", 4), Sq("d", 5), Sq("e", 5)}

\* BotService.developmentSquares: c3 to f3 and c6 to f6
DevelopmentSquares ==
    {Sq(file, rank) : file \in {"c", "d", "e", "f"}, rank \in {3, 6}}

\* BotService.countPieces on a board
CountPiecesOn(b) == Cardinality({c \in Cells : b[c] # NoPiece})

\* the search's -Infinity and Infinity: a number beyond every sum of
\* evaluations
Infinity == 10000000

\* the rules engine as the search sees it: the position of the game and the
\* history of the moves the search has played on it and not yet undone
Engine ==
    [board |-> board, turn |-> turn, kings |-> kings, moveNumber |-> moveNumber,
     history |-> <<>>]

\* chess.move(child) on the engine: the move is made and pushed on the
\* history with the kings, turn and move number of before
EngineMove(g, m) ==
    [board |-> MakeMove(g.board, m[1], m[2]),
     kings |-> MakeMoveKings(g.board, g.kings, m[1], m[2]),
     turn |-> SwapColor(g.turn),
     moveNumber |-> IF g.turn = "b" THEN g.moveNumber + 1 ELSE g.moveNumber,
     history |-> Append(g.history,
         [from |-> m[1], to |-> m[2], piece |-> g.board[m[1]].type,
          color |-> g.board[m[1]].color, captured |-> g.board[m[2]].type,
          kings |-> g.kings, turn |-> g.turn, moveNumber |-> g.moveNumber])]

\* a plausible slip: the captured piece is not put back
EngineUndoNoCapture(g) ==
    LET old == g.history[Len(g.history)]
    IN [board |-> [c \in Cells |->
                      IF c = old.from THEN P(g.board[old.to].color, old.piece)
                      ELSE IF c = old.to THEN NoPiece
                      ELSE g.board[c]],
        kings |-> old.kings, turn |-> old.turn, moveNumber |-> old.moveNumber,
        history |-> SubSeq(g.history, 1, Len(g.history) - 1)]

\* chess.undo() on the engine: the last entry of the history is popped, the
\* kings, turn and move number are set from it, the piece goes back to its
\* square with the type it had and the captured piece is put back
EngineUndo(g) ==
    LET old == g.history[Len(g.history)]
        them == SwapColor(old.turn)
    IN [board |-> [c \in Cells |->
                      IF c = old.from THEN P(g.board[old.to].color, old.piece)
                      ELSE IF c = old.to
                      THEN (IF old.captured # "none"
                            THEN P(them, old.captured) ELSE NoPiece)
                      ELSE g.board[c]],
        kings |-> old.kings, turn |-> old.turn, moveNumber |-> old.moveNumber,
        history |-> SubSeq(g.history, 1, Len(g.history) - 1)]

\* BotService.evaluateMove of the move just played on the engine, the last
\* of its history, for a bot of color `color`: captures, piece-square
\* tables, promotion to a queen, the centre and development bonuses of the
\* middlegame and the check bonus; isEndGame and isMidGame count the pieces
\* of the engine after the move
EvaluateMove(g, prevSum, color) ==
    LET move == g.history[Len(g.history)]
        self == move.color = color
        sign == IF self THEN 1 ELSE -1
        count == CountPiecesOn(g.board)
        pieceType == IF count <= 8 /\ move.piece = "k" THEN "k_e" ELSE move.piece
        captured == IF move.captured = "none" THEN 0
                    ELSE sign * (PieceValues[move.captured]
                                 + GetPSTValue(color, move.captured, move.to, ~self))
        moved == IF move.piece = "p" /\ move.to[1] \in {0, 7}
                 THEN sign * ((PieceValues["q"] + GetPSTValue(color, "q", move.to, self))
                              - (PieceValues[pieceType]
                                 + GetPSTValue(color, pieceType, move.from, self)))
                 ELSE sign * (GetPSTValue(color, pieceType, move.to, self)
                              - GetPSTValue(color, pieceType, move.from, self))
        midGame == count <= 16 /\ count > 8
        bonus == IF midGame
                 THEN (IF move.to \in CenterSquares THEN sign * 20 ELSE 0)
                      + (IF move.to \in DevelopmentSquares THEN sign * 15 ELSE 0)
                 ELSE 0
        check == IF IsCheck(g.board, g.turn, g.kings) /\ HasLegalMove(g.board, g.turn, g.kings)
                 THEN sign * 10 ELSE 0
    IN prevSum + captured + moved + bonus + check

\* a plausible slip: the opponent's nodes maximize too
ImprovesMaxOnly(isMaximizing, value, bestValue) == value > bestValue

\* minimax: isMaximizing ? value > bestValue : value < bestValue
Improves(isMaximizing, value, bestValue) ==
    IF isMaximizing THEN value > bestValue ELSE value < bestValue

\* BotService.minimax on the engine g: the results { move, value } it can
\* return over the orders the shuffle can put the children in, each with the
\* engine as the call leaves it.  No move is <<>>
RECURSIVE Minimax(_, _, _, _, _, _, _)
RECURSIVE VisitChildren(_, _, _, _, _, _, _, _, _, _)
Minimax(g, depth, alpha, beta, isMaximizing, sum, color) ==
    LET children == LegalMoves(g.board, g.turn, g.kings)
    IN IF depth = 0 \/ children = {}
       THEN {[move |-> <<>>, value |-> sum, engine |-> g]}
       ELSE VisitChildren(g, depth, alpha, beta, isMaximizing, sum, color, children,
                          <<>>, IF isMaximizing THEN -Infinity ELSE Infinity)

\* the for loop of minimax over the children not yet visited, with the best
\* move and value so far: the child is played, evaluated, searched and
\* undone; the loop breaks when alpha >= beta
VisitChildren(g, depth, alpha, beta, isMaximizing, sum, color, rest, bestMove, bestValue) ==
    IF rest = {} THEN {[move |-> bestMove, value |-> bestValue, engine |-> g]}
    ELSE UNION {
        LET played == EngineMove(g, child)
            newSum == EvaluateMove(played, sum, color)
        IN UNION {
            LET undone == EngineUndo(r.engine)
                better == Improves(isMaximizing, r.value, bestValue)
                value == IF better THEN r.value ELSE bestValue
                move == IF better THEN child ELSE bestMove
                a == IF isMaximizing THEN Max(alpha, value) ELSE alpha
                b == IF isMaximizing THEN beta
                     ELSE (IF value < beta THEN value ELSE beta)
            IN IF a >= b
               THEN {[move |-> move, value |-> value, engine |-> undone]}
               ELSE VisitChildren(undone, depth, a, b, isMaximizing, sum, color,
                                  rest \ {child}, move, value)
            : r \in Minimax(played, depth - 1, alpha, beta, ~isMaximizing, newSum, color)}
        : child \in rest}

\* plain minimax to a depth: the bot's nodes take the greatest value of
\* their children, the opponent's the least, with the same evaluation
RECURSIVE PlainMinimax(_, _, _, _, _)
PlainMinimax(g, depth, isMaximizing, sum, color) ==
    LET children == LegalMoves(g.board, g.turn, g.kings)
        values == {PlainMinimax(EngineMove(g, child), depth - 1, ~isMaximizing,
                                EvaluateMove(EngineMove(g, child), sum, color), color)
                   : child \in children}
    IN IF depth = 0 \/ children = {} THEN sum
       ELSE IF isMaximizing THEN CHOOSE v \in values : \A w \in values : w <= v
       ELSE CHOOSE v \in values : \A w \in values : v <= w

(***************************************************************************)
(* Specification of the search called on its own on the positions of a     *)
(* locked pawn ending                                                      *)
(***************************************************************************)
\* at most MaxSearchPlies moves are played before the search is called
MaxSearchPlies == 2

\* the depths minimax is called with on its own: those of its recursive
\* calls
SearchDepths == 0..2

\* kings in the corners behind blocked pawns: each side has a king move and
\* two pawn captures
LockedPawns ==
    Pieces(Sq("a", 1) :> P("w", "k") @@ Sq("a", 2) :> P("w", "p") @@
           Sq("b", 2) :> P("w", "p") @@ Sq("a", 3) :> P("b", "p") @@
           Sq("b", 3) :> P("b", "p") @@ Sq("c", 4) :> P("w", "p") @@
           Sq("c", 5) :> P("b", "p") @@ Sq("h", 6) :> P("w", "p") @@
           Sq("h", 7) :> P("b", "p") @@ Sq("h", 8) :> P("b", "k"))

\* the cells Game.movePiece is called with before the search: those of the
\* pawns that can capture, a2, b2, a3, b3
SearchMoveCells == {Sq(file, rank) : file \in {"a", "b"}, rank \in 2..3}

\* the cells marked as danger zones: a3 (a pawn) and h8 (the black king)
SearchDangerCells == {Sq("a", 3), Sq("h", 8)}

\* a game in progress on the pawn ending, white to move, with a bot of
\* level dificil of either color
InitSearch ==
    /\ board = LockedPawns
    /\ turn = "w"
    /\ kings = KingsOf(LockedPawns)
    /\ moveNumber = 1
    /\ dangerZones = <<>>
    /\ dangerZoneTimers = [k \in {} |-> 0]
    /\ winner = "null"
    /\ \E cor \in Colors :
          /\ bots = <<[nivel |-> "dificil", cor |-> cor, isProcessing |-> FALSE]>>
          /\ playerColor = SwapColor(cor)
          /\ humanColor = SwapColor(cor)
          /\ settings = {[mode |-> "singleplayer", botLevel |-> "dificil",
                          playerColor |-> SwapColor(cor), dangerZonesEnabled |-> TRUE]}
    /\ botService = 1
    /\ timeouts = {}
    /\ resetCancelled = FALSE
    /\ now = 0
    /\ isProcessingMove = FALSE
    /\ shownResult = "none"
    /\ startVisible = FALSE
    /\ selectedCell = <<>>
    /\ validMoves = {}
    /\ tasks = EmptyBag
    /\ kingCaught = FALSE
    /\ called = <<>>
    /\ returned = <<"none">>

\* Game.movePiece with a legal move, before the search is called
SearchMove(from, to) ==
    /\ called = <<>>
    /\ Plies < MaxSearchPlies
    /\ MoveIsLegal(from, to)
    /\ ChessMove(from, to)
    /\ UNCHANGED <<zoneVars, winner, humanColor, settings, now, isProcessingMove,
                   shownResult, startVisible, selectedCell, validMoves,
                   playerColor, botService, bots, tasks, kingCaught, called,
                   returned>>

\* BotService.minimax(game.chessInstance, depth, -Infinity, Infinity, true,
\* 0, cor) run to its end under the name `call`: the engine is left as the
\* search leaves it, and the call returns the move, the value and the
\* number of moves left on the engine's history
CallSearch(call, depth) ==
    /\ called = <<>>
    /\ \E r \in Minimax(Engine, depth, -Infinity, Infinity, TRUE, 0, bots[botService].cor) :
          /\ board' = r.engine.board
          /\ turn' = r.engine.turn
          /\ kings' = r.engine.kings
          /\ moveNumber' = r.engine.moveNumber
          /\ returned' = <<"result", r.move, r.value, Len(r.engine.history)>>
    /\ called' = <<call, depth>>
    /\ UNCHANGED <<zoneVars, winner, humanColor, settings, now, isProcessingMove,
                   shownResult, startVisible, selectedCell, validMoves,
                   playerColor, botService, bots, tasks, kingCaught>>

\* BotService.minimax called on its own with a depth
CallMinimax(depth) == CallSearch("minimax", depth)

\* the search of BotService.fazerMovimentoDificil, depth 4 in the endgame
\* and 3 before it, called before any move is played
CallFazerMovimentoDificil ==
    /\ Plies = 0
    /\ CallSearch("fazerMovimentoDificil", IF IsEndGame THEN 4 ELSE 3)

NextSearch ==
    \/ \E position \in SearchDangerCells : AddDangerZone(position)
    \/ \E from \in SearchMoveCells, to \in SearchMoveCells : SearchMove(from, to)
    \/ \E depth \in SearchDepths : CallMinimax(depth)
    \/ CallFazerMovimentoDificil

SpecSearch == InitSearch /\ [][NextSearch]_vars

\* C22: the search of level dificil leaves the game as it found it: when a
\* call of minimax has returned, the board, the side to move, the recorded
\* kings, the move number and the danger zones are those of before the call
\* and no move of the search is left on the engine's history.
C22_SearchReadOnly ==
    [][(called = <<>> /\ called' # <<>>) =>
          /\ board' = board
          /\ turn' = turn
          /\ kings' = kings
          /\ moveNumber' = moveNumber
          /\ dangerZones' = dangerZones
          /\ returned'[4] = 0]_vars

\* fazerMovimentoDificil has searched the pawn ending to depth 3 and returned
\* the capture a2xb3; the pawns stand where they stood
C22_Witness ==
    /\ called = <<"fazerMovimentoDificil", 3>>
    /\ returned[2] = <<Sq("a", 2), Sq("b", 3)>>
    /\ board = LockedPawns
    /\ turn = "w"

\* C24: the value the search returns at the root is the value of plain
\* minimax to the same depth on the same position (the bot's nodes take the
\* greatest value, the opponent's the least, same accumulated evaluation),
\* whatever order the shuffle puts the moves in and whatever alpha-beta
\* prunes; the move returned is one that has this value.
C24_RootValueIsMinimax ==
    [][(called = <<>> /\ called' # <<>>) =>
          LET cor == bots[botService].cor
              depth == called'[2]
              move == returned'[2]
              played == EngineMove(Engine, move)
          IN /\ returned'[3] = PlainMinimax(Engine, depth, TRUE, 0, cor)
             /\ move # <<>> =>
                   returned'[3] = PlainMinimax(played, depth - 1, FALSE,
                                               EvaluateMove(played, 0, cor), cor)]_vars

\* the search of the white bot, three plies deep on the locked pawn ending,
\* returned the value 178 of plain minimax
C24_Witness ==
    /\ called = <<"fazerMovimentoDificil", 3>>
    /\ bots[botService].cor = "w"
    /\ dangerZones = <<>>
    /\ returned[3] = 178
    /\ returned[3] = PlainMinimax(Engine, 3, TRUE, 0, "w")

(***************************************************************************)
(* Specification of matches started with and without danger zones          *)
(***************************************************************************)
\* the settings a match is started with: the human plays white, danger
\* zones are switched on or off
MatchSettings ==
    {[mode |-> "singleplayer", botLevel |-> "facil", playerColor |-> "w",
      dangerZonesEnabled |-> enabled] : enabled \in BOOLEAN}

\* the cells asked to be marked as danger zones: e1, the human's king, and e2
SettingsDangerCells == {<<7, 4>>, <<6, 4>>}

\* the cells moves are tried between: e2, e3, e4, e7, e5
SettingsMoveCells == {<<6, 4>>, <<5, 4>>, <<4, 4>>, <<1, 4>>, <<3, 4>>}

\* what GameController.startGame does to the game: setHumanColor, reset,
\* setSettings
StartMatch(s) ==
    /\ humanColor' = s.playerColor
    /\ GameReset
    /\ settings' = {s}
    /\ UNCHANGED <<winner, resetCancelled, now, isProcessingMove, shownResult,
                   startVisible, ctlVars>>

\* Game.processDangerQueue with position at the head of the queue
ProcessDangerQueue(position) == AddDangerZone(position)

NextSettings ==
    \/ \E s \in MatchSettings : StartMatch(s)
    \/ \E position \in SettingsDangerCells : AddDangerZone(position)
    \/ \E position \in SettingsDangerCells : ProcessDangerQueue(position)
    \/ \E t \in timeouts : DangerZoneExpiry(t)
    \/ \E from \in SettingsMoveCells, to \in SettingsMoveCells : MovePiece(from, to)
    \/ Tick(TickMs, MaxTicks * TickMs)

SpecSettings == Init /\ [][NextSettings]_vars

\* the match was started with danger zones switched off
ZonesSwitchedOff == \E st \in settings : ~st.dangerZonesEnabled

\* C26: while the settings of the match have dangerZonesEnabled = false,
\* addDangerZone, called directly or through processDangerQueue, creates no
\* zone and no timer: there is no zone and no pending timer, no piece leaves
\* the board other than by a capture, and no winner is declared.
C26_SwitchedOffNoZones ==
    [][ZonesSwitchedOff' =>
          /\ dangerZones' = <<>>
          /\ timeouts' = {}
          /\ DOMAIN dangerZoneTimers' = {}
          /\ ZonesSwitchedOff =>
                /\ winner' = winner
                /\ CountPiecesOn(board') < CountPiecesOn(board) => turn' # turn]_vars

\* a match without danger zones in which 1. e4 e5 was played and 15000 ms
\* have passed: every piece is on the board and there is no winner
C26_Witness ==
    /\ ZonesSwitchedOff
    /\ now = MaxTicks * TickMs
    /\ Plies = 2
    /\ CountPieces = 32
    /\ dangerZones = <<>>
    /\ winner = "null"

(***************************************************************************)
(* Zone records and timers                                                 *)
(***************************************************************************)
\* the cells that have a danger-zone record
ZoneCells == {dangerZones[n].position : n \in 1..Len(dangerZones)}

\* the cells that have a pending expiry timer
TimerCells == {t.position : t \in timeouts}

\* C27: the cells that have a zone record are the cells that have a pending
\* expiry timer; each zone has one record and one pending timer, the one the
\* timer map holds for its cell, and this timer is due 15000 ms after the
\* creation of the zone, also for a zone added again after its removal.
C27_ZonesMatchTimers ==
    /\ ZoneCells = TimerCells
    /\ DOMAIN dangerZoneTimers = {Key(c) : c \in ZoneCells}
    /\ \A n \in 1..Len(dangerZones) :
          LET z == dangerZones[n]
              pending == {t \in timeouts : t.position = z.position}
          IN /\ \A k \in 1..Len(dangerZones) : dangerZones[k].position = z.position => k = n
             /\ Cardinality(pending) = 1
             /\ \A t \in pending :
                   /\ t.id = dangerZoneTimers[Key(z.position)]
                   /\ t.due = z.timestamp + DangerZoneMs

\* the zone on e2 was removed, which took the pawn away, and added again at
\* 7500 ms: at 15000 ms, when the timer of the first zone would have run, the
\* zone is still there and its only timer is due at 22500 ms
C27_Witness ==
    /\ now = 15000
    /\ Plies = 0
    /\ board[<<6, 4>>] = NoPiece
    /\ \E n \in 1..Len(dangerZones) :
          /\ dangerZones[n].position = <<6, 4>>
          /\ dangerZones[n].timestamp = 7500
    /\ \A t \in timeouts : t.position = <<6, 4>> => t.due = 22500

(***************************************************************************)
(* The frame of an expiry                                                  *)
(***************************************************************************)
\* C28: an expiry that removes a piece changes the zone's cell and no other
\* cell of the board, and the side to move and the move number are the same
\* after it as before.
C28_ExpiryKeepsTurn ==
    [][\A t \in timeouts :
          (DangerZoneExpiry(t) /\ board' # board)
          => /\ turn' = turn
             /\ moveNumber' = moveNumber
             /\ {c \in Cells : board'[c] # board[c]} = {t.position}]_vars

\* the knight went from g1 to the zone on f3 and was eliminated there while
\* black was to move: it is still black's move, the first of the game
C28_Witness ==
    /\ turn = "b"
    /\ Plies = 1
    /\ board[G1] = NoPiece
    /\ board[F3] = NoPiece
    /\ CountPieces = 31
    /\ now >= DangerZoneMs

(***************************************************************************)
(* The input guard after a king was caught                                 *)
(***************************************************************************)
\* C30 (as claimed): the input guard _isProcessingMove is never left set for
\* good: once the match of a caught king has been reset or restarted and no
\* call of the controller is in progress, the guard is clear, so that a click
\* of the human on their turn is processed.
C30_GuardClearedByRestart ==
    (tasks = EmptyBag /\ ~kingCaught) => ~isProcessingMove

=============================================================================
